---- MODULE Spec2Model ----
(***************************************************************************)
(* Earthwork calculator (src/utils/calculator.ts): computeEarthwork as a   *)
(* state machine, one step per loop iteration of its two passes.           *)
(*                                                                         *)
(* JavaScript numbers are modelled as exact rationals <<n, d>> in lowest   *)
(* terms with d > 0; NaN is <<0, 0>>.  Infinity is not represented: the    *)
(* inputs keep every divisor other than the guarded ones non-zero.         *)
(* Strings are sequences of one-character strings, so that splitting,      *)
(* trimming, substring search and number parsing are computed.             *)
(***************************************************************************)
EXTENDS Integers, Sequences, FiniteSets, TLC

(* ------------------------------------------------------------------ *)
(* Numbers                                                              *)
(* ------------------------------------------------------------------ *)
NaN == <<0, 0>>

isNaN(x) == x[2] = 0

Abs(n) == IF n < 0 THEN -n ELSE n

RECURSIVE GCD(_, _)
GCD(a, b) == IF b = 0 THEN a ELSE GCD(b, a % b)

Rat(n, d) ==
  IF d = 0 THEN NaN
  ELSE LET g == GCD(Abs(n), Abs(d))
           s == IF d < 0 THEN -1 ELSE 1
       IN  <<(s * n) \div g, (s * d) \div g>>

R(n) == <<n, 1>>

RNeg(a) == <<-a[1], a[2]>>

RAdd(a, b) ==
  IF isNaN(a) \/ isNaN(b) THEN NaN
  ELSE LET g == GCD(a[2], b[2])
       IN  Rat(a[1] * (b[2] \div g) + b[1] * (a[2] \div g), (a[2] \div g) * b[2])

RSub(a, b) == RAdd(a, RNeg(b))

RMul(a, b) ==
  IF isNaN(a) \/ isNaN(b) THEN NaN
  ELSE LET g1 == GCD(Abs(a[1]), b[2])
           g2 == GCD(Abs(b[1]), a[2])
       IN  <<(a[1] \div g1) * (b[1] \div g2), (a[2] \div g2) * (b[2] \div g1)>>

RDiv(a, b) ==
  IF isNaN(a) \/ isNaN(b) \/ b[1] = 0 THEN NaN
  ELSE RMul(a, IF b[1] < 0 THEN <<-b[2], -b[1]>> ELSE <<b[2], b[1]>>)

\* an integer with the sign of a - b
RCmp(a, b) ==
  LET g == GCD(a[2], b[2]) IN a[1] * (b[2] \div g) - b[1] * (a[2] \div g)

\* comparisons: every comparison with NaN is false, as in JavaScript
RLt(a, b) == ~isNaN(a) /\ ~isNaN(b) /\ RCmp(a, b) < 0
RLe(a, b) == ~isNaN(a) /\ ~isNaN(b) /\ RCmp(a, b) <= 0
RGt(a, b) == RLt(b, a)
RGe(a, b) == RLe(b, a)

MathAbs(a) == <<Abs(a[1]), a[2]>>

\* Math.round: the nearest integer, halves towards +Infinity
MathRound(a) ==
  IF isNaN(a) THEN NaN
  ELSE LET ip == a[1] \div a[2]
           r  == a[1] % a[2]
       IN  R(ip + (IF 2 * r >= a[2] THEN 1 ELSE 0))

\* Math.round(x * 1000) / 1000, evaluated on the integer part and the
\* fractional part of x separately (same value, smaller intermediate integers)
round3(x) ==
  IF isNaN(x) THEN NaN
  ELSE LET ip == x[1] \div x[2]
           fr == Rat((x[1] % x[2]) * 1000, x[2])
       IN  RDiv(RAdd(R(ip * 1000), MathRound(fr)), R(1000))

(* ------------------------------------------------------------------ *)
(* Strings                                                              *)
(* ------------------------------------------------------------------ *)
Digits == <<"0", "1", "2", "3", "4", "5", "6", "7", "8", "9">>

IsDigit(c) == \E k \in 1..10 : Digits[k] = c

DigitVal(c) == (CHOOSE k \in 1..10 : Digits[k] = c) - 1

Upper == <<"A", "B", "C", "D", "E", "F", "G", "H", "I", "J", "K", "L", "M",
           "N", "O", "P", "Q", "R", "S", "T", "U", "V", "W", "X", "Y", "Z">>
Lower == <<"a", "b", "c", "d", "e", "f", "g", "h", "i", "j", "k", "l", "m",
           "n", "o", "p", "q", "r", "s", "t", "u", "v", "w", "x", "y", "z">>

\* String.prototype.toLowerCase, one character
LowerChar(c) ==
  IF \E k \in 1..26 : Upper[k] = c
  THEN Lower[CHOOSE k \in 1..26 : Upper[k] = c]
  ELSE c

toLowerCase(s) == [k \in 1..Len(s) |-> LowerChar(s[k])]

IsSpace(c) == c \in {" ", "\t"}

\* String.prototype.trim
RECURSIVE TrimLeft(_)
TrimLeft(s) == IF s # <<>> /\ IsSpace(Head(s)) THEN TrimLeft(Tail(s)) ELSE s

RECURSIVE TrimRight(_)
TrimRight(s) ==
  IF s # <<>> /\ IsSpace(s[Len(s)]) THEN TrimRight(SubSeq(s, 1, Len(s) - 1)) ELSE s

trim(s) == TrimRight(TrimLeft(s))

\* String.prototype.includes
includes(s, pat) ==
  \E k \in 0..(Len(s) - Len(pat)) : SubSeq(s, k + 1, k + Len(pat)) = pat

IsDelim(c) == c \in {",", "\t"}

\* String.prototype.split(/[,\t]+/): a run of delimiters separates two fields;
\* a leading or trailing run leaves an empty first or last field
RECURSIVE SplitFrom(_, _, _, _)
SplitFrom(s, k, cur, acc) ==
  IF k > Len(s) THEN Append(acc, cur)
  ELSE IF IsDelim(s[k])
       THEN IF k > 1 /\ IsDelim(s[k - 1])
            THEN SplitFrom(s, k + 1, cur, acc)
            ELSE SplitFrom(s, k + 1, <<>>, Append(acc, cur))
       ELSE SplitFrom(s, k + 1, Append(cur, s[k]), acc)

split(s) == SplitFrom(s, 1, <<>>, <<>>)

\* the digits of s read as a decimal integer (parseInt(s, 10) on digits only)
RECURSIVE parseInt(_)
parseInt(s) ==
  IF s = <<>> THEN 0 ELSE parseInt(SubSeq(s, 1, Len(s) - 1)) * 10 + DigitVal(s[Len(s)])

AllDigits(s) == \A k \in 1..Len(s) : IsDigit(s[k])

\* length of the longest prefix of s made of digits
RECURSIVE DigitRun(_)
DigitRun(s) == IF s # <<>> /\ IsDigit(Head(s)) THEN 1 + DigitRun(Tail(s)) ELSE 0

RECURSIVE Pow10(_)
Pow10(k) == IF k = 0 THEN 1 ELSE 10 * Pow10(k - 1)

\* the longest prefix of s that is a decimal literal [+-]?(d+(.d*)?|.d+),
\* as <<value, length>>; value NaN when there is none
DecimalPrefix(s) ==
  LET sg   == IF s # <<>> /\ Head(s) \in {"+", "-"} THEN 1 ELSE 0
      neg  == sg = 1 /\ Head(s) = "-"
      body == SubSeq(s, sg + 1, Len(s))
      ni   == DigitRun(body)
      rest == SubSeq(body, ni + 1, Len(body))
      dot  == rest # <<>> /\ Head(rest) = "."
      nf   == IF dot THEN DigitRun(Tail(rest)) ELSE 0
      ok   == ni + nf > 0
      useDot == dot /\ (ni > 0 \/ nf > 0)
      mag  == RAdd(R(parseInt(SubSeq(body, 1, ni))),
                   Rat(parseInt(SubSeq(body, ni + 2, ni + 1 + nf)), Pow10(nf)))
  IN  IF ok THEN <<IF neg THEN RNeg(mag) ELSE mag,
                   sg + ni + (IF useDot THEN 1 + nf ELSE 0)>>
      ELSE <<NaN, 0>>

\* parseFloat on the alphabet of the model (no exponent, no "Infinity")
parseFloat(s) == DecimalPrefix(TrimLeft(s))[1]

\* Number(s) on the alphabet of the model: the whole trimmed string is a
\* decimal literal, and the empty string is 0
Number(s) ==
  LET t == trim(s)
      p == DecimalPrefix(t)
  IN  IF t = <<>> THEN R(0)
      ELSE IF p[2] = Len(t) THEN p[1] ELSE NaN

(* ------------------------------------------------------------------ *)
(* Parsing helpers of calculator.ts                                     *)
(* ------------------------------------------------------------------ *)
\* the value of cols[k] for an index past the end of the array
Undefined == <<"undefined">>

\* cols[k], k counted from 0 as in the source
At(cols, k) == IF k >= 0 /\ k < Len(cols) THEN cols[k + 1] ELSE Undefined

RECURSIVE RemoveAll(_, _)
RemoveAll(s, cs) ==
  IF s = <<>> THEN <<>>
  ELSE IF Head(s) \in cs THEN RemoveAll(Tail(s), cs)
       ELSE <<Head(s)>> \o RemoveAll(Tail(s), cs)

\* pNum on a string or undefined: undefined and "" give NaN
pNum(val) ==
  IF val = Undefined \/ val = <<>> THEN NaN
  ELSE parseFloat(trim(RemoveAll(val, {","})))

RECURSIVE padStart(_, _)
padStart(s, n) == IF Len(s) >= n THEN s ELSE padStart(<<"0">> \o s, n)

\* token.match(/^(\d+)\+(\d{1,3})$/): <<km digits, remainder digits>>, or <<>>
MatchKmPlus(token) ==
  LET nk  == DigitRun(token)
      rem == SubSeq(token, nk + 2, Len(token))
  IN  IF /\ nk > 0
         /\ Len(token) > nk
         /\ token[nk + 1] = "+"
         /\ Len(rem) \in 1..3
         /\ AllDigits(rem)
      THEN <<SubSeq(token, 1, nk), rem>>
      ELSE <<>>

\* token.replace(/m$/i, '')
StripTrailingM(s) ==
  IF s # <<>> /\ s[Len(s)] \in {"m", "M"} THEN SubSeq(s, 1, Len(s) - 1) ELSE s

\* chainageToMeters with a faulty remainder: padded on the right, so that the
\* remainder is read as a decimal fraction of a kilometre
chainageToMetersPadEnd(tok) ==
  LET token == trim(tok)
      m     == MatchKmPlus(token)
      plain == RemoveAll(StripTrailingM(token), {",", " "})
      num   == Number(plain)
  IN  IF m # <<>>
      THEN R(parseInt(m[1]) * 1000 + parseInt(m[2]) * Pow10(3 - Len(m[2])))
      ELSE IF ~isNaN(num) THEN MathRound(num) ELSE NaN

\* chainageToMeters on a string (the caller handles undefined, on which
\* token.toString() throws)
chainageToMeters(tok) ==
  LET token == trim(tok)
      m     == MatchKmPlus(token)
      plain == RemoveAll(StripTrailingM(token), {",", " "})
      num   == Number(plain)
  IN  IF m # <<>>
      THEN R(parseInt(m[1]) * 1000 + parseInt(padStart(m[2], 3)))
      ELSE IF ~isNaN(num) THEN MathRound(num) ELSE NaN

\* lines.filter(l => l.trim().length > 0)
RECURSIVE NonBlank(_)
NonBlank(ls) ==
  IF ls = <<>> THEN <<>>
  ELSE IF trim(Head(ls)) = <<>> THEN NonBlank(Tail(ls))
       ELSE <<Head(ls)>> \o NonBlank(Tail(ls))

Fields(line) == LET c == split(line) IN [k \in 1..Len(c) |-> trim(c[k])]

Headers(line) == LET c == Fields(line) IN [k \in 1..Len(c) |-> toLowerCase(c[k])]

\* the if / else-if chain of the header loop: the slot a header name fills
Slot(h) ==
  IF includes(h, <<"c", "h", "a", "i", "n">>) THEN "ch"
  ELSE IF includes(h, <<"p", "r", "o", "p">>) \/ includes(h, <<"f", "r", "l">>) \/ includes(h, <<"f", "g", "l">>) THEN "fgl"
  ELSE IF includes(h, <<"1", "5", "m", "_", "l", "e", "f", "t">>) \/ h = <<"l", "1", "5">> \/ includes(h, <<"e", "g", "l", "_", "1", "5", "m", "_", "l">>) THEN "l15"
  ELSE IF includes(h, <<"m", "e", "d", "i", "a", "n", "_", "l", "h", "s">>) \/ includes(h, <<"m", "e", "d", "_", "l">>) THEN "med_l"
  ELSE IF includes(h, <<"m", "e", "d", "i", "a", "n", "_", "r", "h", "s">>) \/ includes(h, <<"m", "e", "d", "_", "r">>) THEN "med_r"
  ELSE IF includes(h, <<"1", "5", "m", "_", "r", "i", "g", "h", "t">>) \/ h = <<"r", "1", "5">> \/ includes(h, <<"e", "g", "l", "_", "1", "5", "m", "_", "r">>) THEN "r15"
  ELSE IF h = <<"e", "g", "l">> \/ includes(h, <<"g", "r", "o", "u", "n", "d">>) THEN "egl_generic"
  ELSE "none"

Slots == {"ch", "fgl", "l15", "med_l", "med_r", "r15", "egl_generic"}

NoCol == -1

\* ColMap with a faulty default: a slot no header matches falls on column 0
ColMapFirstColumn(headers) ==
  [s \in Slots |->
     IF \E k \in 1..Len(headers) : Slot(headers[k]) = s
     THEN (CHOOSE k \in 1..Len(headers) :
             /\ Slot(headers[k]) = s
             /\ \A j \in (k + 1)..Len(headers) : Slot(headers[j]) # s) - 1
     ELSE 0]

\* colMap after headers.forEach: a later header of the same slot overwrites an
\* earlier one; NoCol stands for undefined
ColMap(headers) ==
  [s \in Slots |->
     IF \E k \in 1..Len(headers) : Slot(headers[k]) = s
     THEN (CHOOSE k \in 1..Len(headers) :
             /\ Slot(headers[k]) = s
             /\ \A j \in (k + 1)..Len(headers) : Slot(headers[j]) # s) - 1
     ELSE NoCol]

(* ------------------------------------------------------------------ *)
(* Geometry of one station (first pass)                                 *)
(* ------------------------------------------------------------------ *)
Pt(x, y) == [x |-> x, y |-> y]

\* the null result of getIntersection
NullPt == Pt(NaN, NaN)

IsNull(pt) == isNaN(pt.x)

\* lines 42-48: the point at parameter ua of p1-p2 when both parameters lie
\* in [0, 1], null otherwise
OnBothSegments(p1, p2, ua, ub) ==
  IF RGe(ua, R(0)) /\ RLe(ua, R(1)) /\ RGe(ub, R(0)) /\ RLe(ub, R(1))
  THEN Pt(RAdd(p1.x, RMul(ua, RSub(p2.x, p1.x))), RAdd(p1.y, RMul(ua, RSub(p2.y, p1.y))))
  ELSE NullPt

\* Intersect with parallel lines not skipped: they meet at the start of p1-p2
IntersectParallelAtStart(p1, p2, denom, numA, numB) ==
  IF denom = R(0) THEN p1
  ELSE OnBothSegments(p1, p2, RDiv(numA, denom), RDiv(numB, denom))

\* lines 36-40: null for parallel lines, else the two line parameters
Intersect(p1, p2, denom, numA, numB) ==
  IF denom = R(0) THEN NullPt
  ELSE OnBothSegments(p1, p2, RDiv(numA, denom), RDiv(numB, denom))

getIntersection(p1, p2, p3, p4) ==
  Intersect(p1, p2,
    RSub(RMul(RSub(p4.y, p3.y), RSub(p2.x, p1.x)), RMul(RSub(p4.x, p3.x), RSub(p2.y, p1.y))),
    RSub(RMul(RSub(p4.x, p3.x), RSub(p1.y, p3.y)), RMul(RSub(p4.y, p3.y), RSub(p1.x, p3.x))),
    RSub(RMul(RSub(p2.x, p1.x), RSub(p1.y, p3.y)), RMul(RSub(p2.y, p1.y), RSub(p1.x, p3.x))))

\* getInterpolatedEGL with a faulty policy outside the profile: the line of the
\* outermost segment is continued (linear extrapolation)
getInterpolatedEGLSloping(x, groundProfile) ==
  LET n    == Len(groundProfile)
      segs == {i \in 1..(n - 1) : RGe(x, groundProfile[i].x) /\ RLe(x, groundProfile[i + 1].x)}
      i    == IF segs # {} THEN CHOOSE i \in segs : \A j \in segs : i <= j
              ELSE IF RLe(x, groundProfile[1].x) THEN 1 ELSE n - 1
      p1   == groundProfile[i]
      p2   == groundProfile[i + 1]
  IN  IF p1.x = p2.x THEN p1.y
      ELSE RAdd(p1.y, RMul(RDiv(RSub(x, p1.x), RSub(p2.x, p1.x)), RSub(p2.y, p1.y)))

getInterpolatedEGL(x, groundProfile) ==
  LET n    == Len(groundProfile)
      segs == {i \in 1..(n - 1) : RGe(x, groundProfile[i].x) /\ RLe(x, groundProfile[i + 1].x)}
  IN  IF RLe(x, groundProfile[1].x) THEN groundProfile[1].y
      ELSE IF RGe(x, groundProfile[n].x) THEN groundProfile[n].y
      ELSE IF segs # {}
           THEN LET i  == CHOOSE i \in segs : \A j \in segs : i <= j
                    p1 == groundProfile[i]
                    p2 == groundProfile[i + 1]
                    t  == RDiv(RSub(x, p1.x), RSub(p2.x, p1.x))
                IN  RAdd(p1.y, RMul(t, RSub(p2.y, p1.y)))
           ELSE groundProfile[1].y

\* Array.prototype.sort((a, b) => a.x - b.x): stable, ascending by x
RECURSIVE InsertByX(_, _)
InsertByX(sorted, p) ==
  IF sorted = <<>> THEN <<p>>
  ELSE IF RLt(p.x, Head(sorted).x) THEN <<p>> \o sorted
       ELSE <<Head(sorted)>> \o InsertByX(Tail(sorted), p)

RECURSIVE SortByX(_)
SortByX(pts) ==
  IF pts = <<>> THEN <<>>
  ELSE InsertByX(SortByX(SubSeq(pts, 1, Len(pts) - 1)), pts[Len(pts)])

\* Array.from(set).sort((a, b) => a - b)
RECURSIVE InsertNum(_, _)
InsertNum(sorted, v) ==
  IF sorted = <<>> THEN <<v>>
  ELSE IF RLt(v, Head(sorted)) THEN <<v>> \o sorted
       ELSE <<Head(sorted)>> \o InsertNum(Tail(sorted), v)

RECURSIVE SortNums(_)
SortNums(S) ==
  IF S = {} THEN <<>>
  ELSE LET v == CHOOSE v \in S : TRUE IN InsertNum(SortNums(S \ {v}), v)

SelectNums(s, lo, hi) ==
  LET keep == {k \in 1..Len(s) : RGe(s[k], lo) /\ RLe(s[k], hi)}
      F[k \in 0..Len(s)] ==
        IF k = 0 THEN <<>>
        ELSE IF k \in keep THEN Append(F[k - 1], s[k]) ELSE F[k - 1]
  IN  F[Len(s)]

Milli == Rat(1, 1000)

AreaEps == Rat(1, 100)

RayExtent == R(1000)

\* GroundValues with a faulty priority: the generic column before the four
\* offset columns
GroundValuesGenericFirst(cols, colMap, fglC) ==
  IF colMap["egl_generic"] # NoCol
  THEN LET val == pNum(At(cols, colMap["egl_generic"])) IN <<val, val, val, val>>
  ELSE IF colMap["l15"] # NoCol /\ colMap["med_l"] # NoCol /\ colMap["med_r"] # NoCol /\ colMap["r15"] # NoCol
       THEN <<pNum(At(cols, colMap["l15"])), pNum(At(cols, colMap["med_l"])),
              pNum(At(cols, colMap["med_r"])), pNum(At(cols, colMap["r15"]))>>
       ELSE IF Len(cols) >= 6 /\ ~isNaN(pNum(At(cols, 2))) /\ ~isNaN(pNum(At(cols, 5)))
            THEN <<pNum(At(cols, 2)), pNum(At(cols, 3)), pNum(At(cols, 4)), pNum(At(cols, 5))>>
            ELSE <<fglC, fglC, fglC, fglC>>

\* lines 120-144: the four ground values before sanitization
GroundValues(cols, colMap, fglC) ==
  IF colMap["l15"] # NoCol /\ colMap["med_l"] # NoCol /\ colMap["med_r"] # NoCol /\ colMap["r15"] # NoCol
  THEN <<pNum(At(cols, colMap["l15"])), pNum(At(cols, colMap["med_l"])),
         pNum(At(cols, colMap["med_r"])), pNum(At(cols, colMap["r15"]))>>
  ELSE IF colMap["egl_generic"] # NoCol
       THEN LET val == pNum(At(cols, colMap["egl_generic"])) IN <<val, val, val, val>>
       ELSE IF Len(cols) >= 6 /\ ~isNaN(pNum(At(cols, 2))) /\ ~isNaN(pNum(At(cols, 5)))
            THEN <<pNum(At(cols, 2)), pNum(At(cols, 3)), pNum(At(cols, 4)), pNum(At(cols, 5))>>
            ELSE <<fglC, fglC, fglC, fglC>>

\* Sanitize with a faulty substitute: every missing value becomes the
\* formation level
SanitizeToFormation(g, fglC) ==
  [j \in 1..4 |-> IF isNaN(g[j]) THEN fglC ELSE g[j]]

\* lines 146-150
Sanitize(g, fglC) ==
  LET egl15L  == IF isNaN(g[1]) THEN fglC ELSE g[1]
      eglMedL == IF isNaN(g[2]) THEN egl15L ELSE g[2]
      eglMedR == IF isNaN(g[3]) THEN eglMedL ELSE g[3]
      egl15R  == IF isNaN(g[4]) THEN eglMedR ELSE g[4]
  IN  <<egl15L, eglMedL, eglMedR, egl15R>>

\* lines 152-165
GroundPts(e, medianWidth) ==
  LET halfMed == RDiv(medianWidth, R(2))
  IN  SortByX(<<Pt(R(-15), e[1]), Pt(RNeg(halfMed), e[2]), Pt(halfMed, e[3]), Pt(R(15), e[4])>>)

\* lines 199-203
ExtendedGround(groundPts) ==
  <<Pt(RNeg(RayExtent), groundPts[1].y)>> \o groundPts \o <<Pt(RayExtent, groundPts[4].y)>>

\* lines 210-213 and 221-224: the intersection of the ray with every segment of
\* the extended ground, by segment index
Hits(rayStart, rayEnd, ext) ==
  [j \in 1..(Len(ext) - 1) |-> getIntersection(rayStart, rayEnd, ext[j], ext[j + 1])]

\* the break of lines 214-217 and 225-228: the first accepted hit in scan order,
\* the default of lines 205-206 when there is none
FirstHit(hit, ok, dflt) ==
  IF ok = {} THEN dflt ELSE hit[CHOOSE j \in ok : \A k \in ok : j <= k]

\* line 214
ToeLeftOf(hit, limit, dflt) ==
  FirstHit(hit, {j \in DOMAIN hit : ~IsNull(hit[j]) /\ RLe(hit[j].x, limit)}, dflt)

\* line 225
ToeRightOf(hit, limit, dflt) ==
  FirstHit(hit, {j \in DOMAIN hit : ~IsNull(hit[j]) /\ RGe(hit[j].x, limit)}, dflt)

\* lines 208-218
ToeLeft(pRoadL, gradL, ext, dflt, B) ==
  ToeLeftOf(Hits(pRoadL,
                 Pt(RSub(pRoadL.x, RayExtent), RAdd(pRoadL.y, RMul(gradL, RNeg(RayExtent)))),
                 ext),
            RAdd(RNeg(RDiv(B, R(2))), Milli), dflt)

\* lines 220-229
ToeRight(pRoadR, gradR, ext, dflt, B) ==
  ToeRightOf(Hits(pRoadR,
                  Pt(RAdd(pRoadR.x, RayExtent), RAdd(pRoadR.y, RMul(gradR, RayExtent))),
                  ext),
             RSub(RDiv(B, R(2)), Milli), dflt)

\* lines 275-279
Classify(areaCut, areaFill) ==
  IF RGt(areaCut, AreaEps) /\ RLt(areaFill, AreaEps) THEN "Cut"
  ELSE IF RGt(areaFill, AreaEps) /\ RLt(areaCut, AreaEps) THEN "Fill"
  ELSE IF RGt(areaCut, AreaEps) /\ RGt(areaFill, AreaEps) THEN "Mixed"
  ELSE "Level"

\* TotalArea with a faulty sign: the net of the two areas
TotalAreaNet(areaCut, areaFill) == RSub(areaCut, areaFill)

\* line 281
TotalArea(areaCut, areaFill) == RAdd(areaCut, areaFill)

\* lines 271-272: one strip of height h (road minus ground) and width w,
\* added to the running <<areaCut, areaFill>>
AddStrip(acc, h, w) ==
  IF RGt(h, R(0)) THEN <<acc[1], RAdd(acc[2], RMul(h, w))>>
  ELSE <<RAdd(acc[1], RMul(MathAbs(h), w)), acc[2]>>

\* lines 167-181: the formation edges and the ground under them
Formation(fglC, groundPts, halfB, camberDrop) ==
  [fglC       |-> fglC,
   halfB      |-> halfB,
   camberDrop |-> camberDrop,
   fglL_edge  |-> RSub(fglC, camberDrop),
   fglR_edge  |-> RSub(fglC, camberDrop),
   gL_at_edge |-> getInterpolatedEGL(RNeg(halfB), groundPts),
   gR_at_edge |-> getInterpolatedEGL(halfB, groundPts)]

\* Grad with the ratio upside down: slope vertical to 1 horizontal
GradSteep(isCut, slope, whenCut) ==
  IF isCut THEN RMul(whenCut, slope) ELSE RMul(RNeg(whenCut), slope)

\* lines 192 and 195
Grad(isCut, slope, whenCut) ==
  IF isCut THEN RDiv(whenCut, slope) ELSE RDiv(RNeg(whenCut), slope)

\* lines 186-195
SlopesOf(isCutL, isCutR, cutSlope, fillSlope) ==
  [isCutL |-> isCutL,
   isCutR |-> isCutR,
   gradL  |-> Grad(isCutL, IF isCutL THEN cutSlope ELSE fillSlope, R(-1)),
   gradR  |-> Grad(isCutR, IF isCutR THEN cutSlope ELSE fillSlope, R(1))]

\* lines 180-195
SideSlopes(f, cutSlope, fillSlope) ==
  SlopesOf(RGt(RSub(f.gL_at_edge, f.fglL_edge), R(0)),
           RGt(RSub(f.gR_at_edge, f.fglR_edge), R(0)), cutSlope, fillSlope)

\* Toes with a faulty default: the centre line in place of the formation edge
ToesFromCentre(f, sl, ext, B) ==
  [toeL |-> ToeLeft(Pt(RNeg(f.halfB), f.fglL_edge), sl.gradL, ext, Pt(R(0), f.gL_at_edge), B),
   toeR |-> ToeRight(Pt(f.halfB, f.fglR_edge), sl.gradR, ext, Pt(R(0), f.gR_at_edge), B)]

\* lines 197-229
Toes(f, sl, ext, B) ==
  [toeL |-> ToeLeft(Pt(RNeg(f.halfB), f.fglL_edge), sl.gradL, ext,
                    Pt(RNeg(f.halfB), f.gL_at_edge), B),
   toeR |-> ToeRight(Pt(f.halfB, f.fglR_edge), sl.gradR, ext,
                     Pt(f.halfB, f.gR_at_edge), B)]

\* lines 238-246
SortedX(halfB, t, groundPts) ==
  SelectNums(SortNums({RNeg(halfB), R(0), halfB, t.toeL.x, t.toeR.x}
                        \cup {groundPts[k].x : k \in 1..4}),
             RSub(t.toeL.x, Milli), RAdd(t.toeR.x, Milli))

\* lines 256-264
roadY(mid, f, sl) ==
  IF RLt(mid, RNeg(f.halfB))
  THEN RAdd(f.fglL_edge, RMul(sl.gradL, RSub(mid, RNeg(f.halfB))))
  ELSE IF RGt(mid, f.halfB)
       THEN RAdd(f.fglR_edge, RMul(sl.gradR, RSub(mid, f.halfB)))
       ELSE RSub(f.fglC, RMul(RDiv(MathAbs(mid), f.halfB), f.camberDrop))

\* lines 253-272: the strip between x1 and x2, measured at its middle
Strip(acc, x1, x2, mid, f, sl, groundPts) ==
  AddStrip(acc, RSub(roadY(mid, f, sl), getInterpolatedEGL(mid, groundPts)), RSub(x2, x1))

\* lines 234-273: <<areaCut, areaFill>> after the loop over sortedX
RECURSIVE Areas(_, _, _, _, _)
Areas(sortedX, k, f, sl, groundPts) ==
  IF k <= 1 THEN <<R(0), R(0)>>
  ELSE IF RLt(MathAbs(RSub(sortedX[k], sortedX[k - 1])), Milli)
       THEN Areas(sortedX, k - 1, f, sl, groundPts)
       ELSE Strip(Areas(sortedX, k - 1, f, sl, groundPts), sortedX[k - 1], sortedX[k],
                  RDiv(RAdd(sortedX[k - 1], sortedX[k]), R(2)), f, sl, groundPts)

\* lines 234-273
AreasOver(sortedX, f, sl, groundPts) == Areas(sortedX, Len(sortedX), f, sl, groundPts)

\* lines 275-281: what the row is built from
SectionResult(f, sl, t, areas) ==
  [camberDrop |-> f.camberDrop, gL_at_edge |-> f.gL_at_edge, gR_at_edge |-> f.gR_at_edge,
   fglL_edge |-> f.fglL_edge, fglR_edge |-> f.fglR_edge,
   isCutL |-> sl.isCutL, isCutR |-> sl.isCutR,
   toeL |-> t.toeL, toeR |-> t.toeR, areaCut |-> areas[1], areaFill |-> areas[2],
   type |-> Classify(areas[1], areas[2]),
   totalArea |-> TotalArea(areas[1], areas[2])]

\* lines 231-281
SectionToed(groundPts, f, sl, t) ==
  SectionResult(f, sl, t, AreasOver(SortedX(f.halfB, t, groundPts), f, sl, groundPts))

\* lines 197-281
SectionSloped(groundPts, f, sl, B) ==
  SectionToed(groundPts, f, sl, Toes(f, sl, ExtendedGround(groundPts), B))

\* lines 183-281
SectionFormed(groundPts, f, B, cutSlope, fillSlope) ==
  SectionSloped(groundPts, f, SideSlopes(f, cutSlope, fillSlope), B)

\* lines 167-281
SectionOn(fglC, groundPts, halfB, B, camber, cutSlope, fillSlope) ==
  SectionFormed(groundPts,
                Formation(fglC, groundPts, halfB, RMul(halfB, RDiv(camber, R(100)))),
                B, cutSlope, fillSlope)

\* lines 152-281: the section of one station from its crown level fglC and its
\* sanitized ground values e
Section(fglC, e, B, medianWidth, camber, cutSlope, fillSlope) ==
  SectionOn(fglC, GroundPts(e, medianWidth), RDiv(B, R(2)), B, camber, cutSlope, fillSlope)

\* lines 116-281: the section of the data line cols under the column map cm
\* and the parameters prm of the call
LineSection(cols, cm, prm) ==
  Section(pNum(At(cols, cm["fgl"])),
          Sanitize(GroundValues(cols, cm, pNum(At(cols, cm["fgl"]))), pNum(At(cols, cm["fgl"]))),
          prm.B, prm.medianWidth, prm.camber, prm.cutSlope, prm.fillSlope)

\* the null of row.spacing
Null == <<"null">>

\* MakeRow with a faulty initial spacing: 0 in place of null
MakeRowSpacingZero(chStr, chM, fglC, e, s, B, medianWidth, cutSlope, fillSlope) ==
  [chainage    |-> chStr,
   chainage_m  |-> chM,
   fglC        |-> round3(fglC),
   egl15L      |-> round3(e[1]),
   eglMedL     |-> round3(e[2]),
   eglMedR     |-> round3(e[3]),
   egl15R      |-> round3(e[4]),
   camberDrop  |-> round3(s.camberDrop),
   hL          |-> round3(RSub(s.fglL_edge, s.gL_at_edge)),
   hR          |-> round3(RSub(s.fglR_edge, s.gR_at_edge)),
   type        |-> s.type,
   B           |-> round3(B),
   medianWidth |-> round3(medianWidth),
   usedSlope   |-> IF s.isCutL THEN cutSlope ELSE fillSlope,
   distL       |-> round3(MathAbs(RSub(s.toeL.x, RNeg(RDiv(B, R(2)))))),
   distR       |-> round3(MathAbs(RSub(s.toeR.x, RDiv(B, R(2))))),
   bottomWidth |-> round3(RSub(s.toeR.x, s.toeL.x)),
   area        |-> round3(s.totalArea),
   areaCut     |-> round3(s.areaCut),
   areaFill    |-> round3(s.areaFill),
   spacing     |-> R(0),
   segVolume   |-> R(0)]

\* lines 283-306: the row pushed for an accepted line
MakeRow(chStr, chM, fglC, e, s, B, medianWidth, cutSlope, fillSlope) ==
  [chainage    |-> chStr,
   chainage_m  |-> chM,
   fglC        |-> round3(fglC),
   egl15L      |-> round3(e[1]),
   eglMedL     |-> round3(e[2]),
   eglMedR     |-> round3(e[3]),
   egl15R      |-> round3(e[4]),
   camberDrop  |-> round3(s.camberDrop),
   hL          |-> round3(RSub(s.fglL_edge, s.gL_at_edge)),
   hR          |-> round3(RSub(s.fglR_edge, s.gR_at_edge)),
   type        |-> s.type,
   B           |-> round3(B),
   medianWidth |-> round3(medianWidth),
   usedSlope   |-> IF s.isCutL THEN cutSlope ELSE fillSlope,
   distL       |-> round3(MathAbs(RSub(s.toeL.x, RNeg(RDiv(B, R(2)))))),
   distR       |-> round3(MathAbs(RSub(s.toeR.x, RDiv(B, R(2))))),
   bottomWidth |-> round3(RSub(s.toeR.x, s.toeL.x)),
   area        |-> round3(s.totalArea),
   areaCut     |-> round3(s.areaCut),
   areaFill    |-> round3(s.areaFill),
   spacing     |-> Null,
   segVolume   |-> R(0)]

(* ------------------------------------------------------------------ *)
(* Inputs                                                               *)
(* ------------------------------------------------------------------ *)
MaxLines == 3

\* header lines
HdrGeneric  == <<"C", "h", "a", "i", "n", "a", "g", "e", ",", "F", "R", "L", ",", "E", "G", "L">>
HdrNoChain  == <<"S", "t", "a", "t", "i", "o", "n", ",", "F", "R", "L", ",", "E", "G", "L">>
HdrNoLevel  == <<"C", "h", "a", "i", "n", "a", "g", "e", ",", "L", "e", "v", "e", "l", ",", "E", "G", "L">>
HdrTabbed   == <<"E", "G", "L", "\t", "P", "r", "o", "p", "o", "s", "e", "d", "_", "F", "R", "L", "\t", "C", "H", "A", "I", "N", "A", "G", "E">>
HdrTemplate == <<"C", "h", "a", "i", "n", "a", "g", "e", ",", " ", "P", "r", "o", "p", "o", "s", "e", "d", "_", "F", "R", "L", ",", " ", "E", "G", "L", "_", "1", "5", "m", "_", "L", "e", "f", "t", ",", " ", "E", "G", "L", "_", "M", "e", "d", "i", "a", "n", "_", "L", "H", "S", ",", " ", "E", "G", "L", "_", "M", "e", "d", "i", "a", "n", "_", "R", "H", "S", ",", " ", "E", "G", "L", "_", "1", "5", "m", "_", "R", "i", "g", "h", "t">>

\* data lines that exercise the parser
LineGood      == <<"0", "+", "0", "0", "0", ",", " ", "5", ",", " ", "0">>
LineBadCh     == <<"x", ",", "5", ",", "0">>
LineEmptyCh   == <<",", "5", ",", "0">>
LineBadLevel  == <<"0", "+", "0", "2", "0", ",", "a", "b", "c", ",", "0">>
LineShort     == <<"4", "0", ",", "5">>
LineOneField  == <<"6", "0">>
LineBlank     == <<" ">>

\* data lines that exercise the geometry (template header)
LineFillA     == <<"0", "+", "0", "0", "0", ",", "5", ",", "0", ",", "0", ",", "0", ",", "0">>
LineFillB     == <<"0", "+", "0", "2", "0", ",", "5", ",", "0", ",", "0", ",", "0", ",", "0">>
LineCut       == <<"0", "+", "0", "4", "0", ",", "5", ",", "1", "0", ",", "1", "0", ",", "1", "0", ",", "1", "0">>
LineMixed     == <<"0", "+", "0", "5", "0", ",", "5", ",", "1", "0", ",", "1", "0", ",", "0", ",", "0">>
LineFlat      == <<"0", "+", "0", "6", "0", ",", "5", ",", "5", ",", "5", ",", "5", ",", "5">>
LineThinFill  == <<"0", "+", "0", "8", "0", ",", "0", ".", "0", "0", "4", ",", "0", ",", "0", ",", "0", ",", "0">>
LineThinCut   == <<"0", "+", "1", "0", "0", ",", "0", ",", "0", ".", "0", "0", "5", ",", "0", ".", "0", "0", "5", ",", "0", ".", "0", "0", "5", ",", "0", ".", "0", "0", "5">>

SeqsUpTo(S, n) == UNION {[1..k -> S] : k \in 1..n}

\* fixedSpacing?: number -- def is FALSE for undefined
NoSpacing == [def |-> FALSE, val |-> NaN]

Spacing(v) == [def |-> TRUE, val |-> v]

Params(B, camber, fixedSpacing) ==
  [B |-> B, medianWidth |-> R(4), camber |-> camber, cutSlope |-> R(1), fillSlope |-> R(2),
   fixedSpacing |-> fixedSpacing]

\* the App's defaults (B = 20, median 4, camber 2.5, slopes 1 and 2, no spacing)
DefaultParams == Params(R(20), Rat(5, 2), NoSpacing)

Call(header, data, prm) == [csvData |-> <<header>> \o data] @@ prm

Calls(headers, pool, prms) ==
  {Call(h, d, prm) : h \in headers, d \in SeqsUpTo(pool, MaxLines), prm \in prms}

\* tokens that do and do not parse
InTokens ==
  Calls({HdrGeneric}, {LineGood, LineBadCh, LineEmptyCh, LineShort}, {DefaultParams})

\* the chainage column behind the others: lines too short to reach it
InTabbed == Calls({HdrTabbed}, {LineGood, LineEmptyCh, LineShort}, {DefaultParams})

\* lines that are skipped
InSkipped ==
  Calls({HdrGeneric}, {LineGood, LineBadLevel, LineOneField, LineBlank}, {DefaultParams})

\* headers without a required column
InNoColumn == Calls({HdrNoChain, HdrNoLevel}, {LineGood, LineBlank}, {DefaultParams})

\* cut, fill and mixed sections, spacing from the chainages
InVolumes ==
  Calls({HdrTemplate}, {LineFillA, LineFillB, LineCut, LineMixed},
        {Params(R(20), R(0), NoSpacing)})

\* every kind of spacing argument
InSpacing ==
  Calls({HdrTemplate}, {LineFillA, LineCut, LineMixed},
        {Params(R(20), R(0), Spacing(v)) : v \in {NaN, R(0), R(-5), R(10)}})

\* sections whose areas lie around the 0.01 m2 threshold
InThin ==
  Calls({HdrTemplate}, {LineThinFill, LineThinCut, LineFlat, LineMixed},
        {Params(R(2), R(0), NoSpacing)})

Inputs ==
  InTokens \cup InTabbed \cup InSkipped \cup InNoColumn \cup InVolumes \cup InSpacing \cup InThin

(* ------------------------------------------------------------------ *)
(* computeEarthwork as a state machine                                  *)
(* ------------------------------------------------------------------ *)
VARIABLES
  args,       \* the arguments of the call
  lines,      \* the non-blank lines of csvData
  colMap,     \* slot -> column index
  rows,       \* the rows pushed so far
  i,          \* the loop index of the running pass
  L,          \* the spacing of the pair handled last in the second pass
  totalCut,
  totalFill,
  result,     \* the returned CalculationResult
  error,      \* the error thrown, "" when none
  pc          \* "start", "pass1", "pass2", "done", "error"

vars == <<args, lines, colMap, rows, i, L, totalCut, totalFill, result, error, pc>>

NullSummary == [totalCut |-> NaN, totalFill |-> NaN, net |-> NaN]

\* no result has been returned
NoResult == [rows |-> <<>>, summary |-> NullSummary]

NoColMap == [s \in Slots |-> NoCol]

\* line 86: csvData.trim().split(/\r?\n/).filter(l => l.trim().length > 0);
\* csvData is given as its lines, and the trim of the whole text trims the
\* start of the first and the end of the last non-blank line
Lines(csvData) ==
  LET ls == NonBlank(csvData)
  IN  [k \in 1..Len(ls) |->
         LET a == IF k = 1 THEN TrimLeft(ls[k]) ELSE ls[k]
         IN  IF k = Len(ls) THEN TrimRight(a) ELSE a]

Init ==
  /\ args \in Inputs
  /\ lines = <<>>
  /\ colMap = NoColMap
  /\ rows = <<>>
  /\ i = 0
  /\ L = NaN
  /\ totalCut = R(0)
  /\ totalFill = R(0)
  /\ result = NoResult
  /\ error = ""
  /\ pc = "start"

Throw(msg) ==
  /\ pc' = "error"
  /\ error' = msg

\* lines 86-108: split the text, map the header, fail on a missing column
ParseHeader ==
  /\ pc = "start"
  /\ LET ls == Lines(args.csvData)
         cm == IF ls = <<>> THEN NoColMap ELSE ColMap(Headers(ls[1]))
     IN  /\ lines' = ls
         /\ IF Len(ls) < 2
            THEN Throw("Please enter data with a header row.") /\ UNCHANGED <<colMap, i>>
            ELSE /\ colMap' = cm
                 /\ IF cm["ch"] = NoCol
                    THEN Throw("Missing 'Chainage' column.") /\ UNCHANGED i
                    ELSE IF cm["fgl"] = NoCol
                         THEN Throw("Missing 'Proposed_FRL' column.") /\ UNCHANGED i
                         ELSE pc' = "pass1" /\ i' = 1 /\ UNCHANGED error
  /\ UNCHANGED <<args, rows, L, totalCut, totalFill, result>>

\* Push with a faulty end: the row goes to the front (unshift)
PushFront(rs, row) == <<row>> \o rs

\* line 283: rows.push(row)
Push(rs, row) == Append(rs, row)

\* lines 110-307: one iteration of the first pass, on lines[i]
ProcessLine ==
  /\ pc = "pass1"
  /\ i < Len(lines)
  /\ LET cols  == Fields(lines[i + 1])
         chStr == At(cols, colMap["ch"])
         chM   == chainageToMeters(chStr)
         fglC  == pNum(At(cols, colMap["fgl"]))
         e     == Sanitize(GroundValues(cols, colMap, fglC), fglC)
         s     == Section(fglC, e, args.B, args.medianWidth, args.camber,
                          args.cutSlope, args.fillSlope)
     IN  IF Len(cols) < 2
         THEN i' = i + 1 /\ UNCHANGED <<rows, pc, error>>
         ELSE IF chStr = Undefined
              THEN \* token.toString() on undefined
                   Throw("TypeError") /\ UNCHANGED <<rows, i>>
              ELSE IF isNaN(chM) \/ isNaN(fglC)
                   THEN i' = i + 1 /\ UNCHANGED <<rows, pc, error>>
                   ELSE /\ rows' = Push(rows, MakeRow(chStr, chM, fglC, e, s, args.B,
                                                      args.medianWidth, args.cutSlope,
                                                      args.fillSlope))
                        /\ i' = i + 1
                        /\ UNCHANGED <<pc, error>>
  /\ UNCHANGED <<args, lines, colMap, L, totalCut, totalFill, result>>

\* lines 309-313: the first pass is over, the second starts
StartVolumes ==
  /\ pc = "pass1"
  /\ i >= Len(lines)
  /\ pc' = "pass2"
  /\ i' = 0
  /\ totalCut' = R(0)
  /\ totalFill' = R(0)
  /\ UNCHANGED <<args, lines, colMap, rows, L, result, error>>

\* SpacingOf without the test fixedSpacing > 0
SpacingOfUnchecked(fixedSpacing, r1, r2) ==
  IF fixedSpacing.def /\ ~isNaN(fixedSpacing.val)
  THEN fixedSpacing.val
  ELSE MathAbs(RSub(r2.chainage_m, r1.chainage_m))

\* lines 314-319
SpacingOf(fixedSpacing, r1, r2) ==
  IF fixedSpacing.def /\ RGt(fixedSpacing.val, R(0)) /\ ~isNaN(fixedSpacing.val)
  THEN fixedSpacing.val
  ELSE MathAbs(RSub(r2.chainage_m, r1.chainage_m))

\* SegVolume from the first end area alone
SegVolumeFirstArea(A1, A2, len) == round3(RMul(A1, len))

\* lines 322-324
SegVolume(A1, A2, len) == round3(RMul(RDiv(RAdd(A1, A2), R(2)), len))

\* rows[i].area || 1
OrOne(a) == IF a = R(0) \/ isNaN(a) THEN R(1) ELSE a

\* Apportion with a faulty split: a row that is neither Cut nor Fill gives half
\* of V to each total
ApportionEvenly(r, V) ==
  IF r.type = "Cut" THEN <<V, R(0)>>
  ELSE IF r.type = "Fill" THEN <<R(0), V>>
  ELSE <<RDiv(V, R(2)), RDiv(V, R(2))>>

\* lines 327-339: <<what is added to totalCut, what is added to totalFill>>
Apportion(r, V) ==
  IF r.type = "Cut" THEN <<V, R(0)>>
  ELSE IF r.type = "Fill" THEN <<R(0), V>>
  ELSE <<RMul(V, RDiv(r.areaCut, OrOne(r.area))), RMul(V, RDiv(r.areaFill, OrOne(r.area)))>>

\* lines 313-340: one iteration of the second pass, on the pair (i, i + 1)
VolumeStep ==
  /\ pc = "pass2"
  /\ i < Len(rows) - 1
  /\ LET len == SpacingOf(args.fixedSpacing, rows[i + 1], rows[i + 2])
         V   == SegVolume(rows[i + 1].area, rows[i + 2].area, len)
         add == Apportion(rows[i + 1], V)
     IN  /\ L' = len
         /\ rows' = [rows EXCEPT ![i + 1].spacing = round3(len), ![i + 1].segVolume = V]
         /\ totalCut' = RAdd(totalCut, add[1])
         /\ totalFill' = RAdd(totalFill, add[2])
  /\ i' = i + 1
  /\ UNCHANGED <<args, lines, colMap, result, error, pc>>

\* Summary with a faulty net: the sum of the two totals
SummarySum(tc, tf) ==
  [totalCut |-> round3(tc), totalFill |-> round3(tf), net |-> round3(RAdd(tc, tf))]

\* lines 342-349
Summary(tc, tf) ==
  [totalCut |-> round3(tc), totalFill |-> round3(tf), net |-> round3(RSub(tc, tf))]

Return ==
  /\ pc = "pass2"
  /\ i >= Len(rows) - 1
  /\ result' = [rows |-> rows, summary |-> Summary(totalCut, totalFill)]
  /\ pc' = "done"
  /\ UNCHANGED <<args, lines, colMap, rows, i, L, totalCut, totalFill, error>>

Next == ParseHeader \/ ProcessLine \/ StartVolumes \/ VolumeStep \/ Return

Spec == Init /\ [][Next]_vars

(* ------------------------------------------------------------------ *)
(* Properties                                                           *)
(* ------------------------------------------------------------------ *)
\* the header names of the call, or <<>> when the text has no non-blank line
HeaderNames ==
  IF NonBlank(args.csvData) = <<>> THEN <<>> ELSE Headers(Lines(args.csvData)[1])

HasChainHeader == \E k \in 1..Len(HeaderNames) : includes(HeaderNames[k], <<"c", "h", "a", "i", "n">>)

HasLevelHeader ==
  \E k \in 1..Len(HeaderNames) :
    \/ includes(HeaderNames[k], <<"p", "r", "o", "p">>)
    \/ includes(HeaderNames[k], <<"f", "r", "l">>)
    \/ includes(HeaderNames[k], <<"f", "g", "l">>)

\* C1: when no header field contains 'chain', or none contains 'prop', 'frl'
\* or 'fgl', the call ends in an error, with no row pushed and no result
C1_MissingColumnFails ==
  (pc # "start" /\ (~HasChainHeader \/ ~HasLevelHeader))
    => (pc = "error" /\ rows = <<>> /\ result = NoResult)

C1_Witness ==
  /\ pc = "error"
  /\ HasChainHeader
  /\ ~HasLevelHeader
  /\ Len(lines) >= 2
  /\ error = "Missing 'Proposed_FRL' column."

\* a data line parses in the sense of C2: its chainage token is present, not
\* empty and a number, and its formation-level field is a number
ParsesAsStation(line) ==
  LET cols == Fields(line)
      ch   == At(cols, colMap["ch"])
  IN  /\ ch # Undefined
      /\ ch # <<>>
      /\ ~isNaN(chainageToMeters(ch))
      /\ ~isNaN(pNum(At(cols, colMap["fgl"])))

\* C2: with both required columns in the header no data line raises an error,
\* and the rows are exactly the lines whose chainage token and formation level
\* parse (an unparsable, empty or missing token drops the line)
C2_BadLinesDropped ==
  /\ (colMap["ch"] # NoCol /\ colMap["fgl"] # NoCol) => pc # "error"
  /\ pc = "done" =>
       Len(result.rows) = Cardinality({k \in 2..Len(lines) : ParsesAsStation(lines[k])})

\* C3: in every row areaCut >= 0, areaFill >= 0 and the stored area is the sum
\* of the two stored areas to within one unit of the 3-decimal storage
C3_AreaDecomposition ==
  \A k \in 1..Len(rows) :
    /\ RGe(rows[k].areaCut, R(0))
    /\ RGe(rows[k].areaFill, R(0))
    /\ RLe(MathAbs(RSub(rows[k].area, RAdd(rows[k].areaCut, rows[k].areaFill))), Milli)

C3_Witness ==
  \E k \in 1..Len(rows) :
    /\ RGt(rows[k].areaCut, R(0))
    /\ RGt(rows[k].areaFill, R(0))
    /\ rows[k].area = RAdd(rows[k].areaCut, rows[k].areaFill)

\* the type C4 assigns to a pair of stored areas
TypeOfStored(areaCut, areaFill) ==
  IF RLe(areaCut, AreaEps) /\ RLe(areaFill, AreaEps) THEN "Level"
  ELSE IF RGt(areaCut, AreaEps) /\ RGt(areaFill, AreaEps) THEN "Mixed"
  ELSE IF RGt(areaCut, AreaEps) THEN "Cut"
  ELSE "Fill"

\* C4: the type of every row is the function TypeOfStored of the areaCut and
\* areaFill stored in that row
C4_TypeFromStoredAreas ==
  \A k \in 1..Len(rows) : rows[k].type = TypeOfStored(rows[k].areaCut, rows[k].areaFill)

\* the spacing of the pair (k, k + 1) as C5 and C6 state it
ClaimedSpacing(k) ==
  LET f == args.fixedSpacing
  IN  IF f.def /\ ~isNaN(f.val) /\ f.val[1] > 0 THEN f.val
      ELSE MathAbs(RSub(rows[k + 1].chainage_m, rows[k].chainage_m))

\* the pairs the second pass has handled
HandledPairs ==
  IF pc \in {"pass2", "done"} THEN {k \in 1..(Len(rows) - 1) : k <= i} ELSE {}

\* C5: the segVolume of row k is (area_k + area_k+1) / 2 x L rounded to 3
\* decimals; two rows of area 150 at chainages 0 and 20 with no override give 3000
C5_SegmentVolume ==
  \A k \in HandledPairs :
    /\ rows[k].segVolume =
         round3(RMul(RDiv(RAdd(rows[k].area, rows[k + 1].area), R(2)), ClaimedSpacing(k)))
    /\ ( /\ rows[k].area = R(150) /\ rows[k + 1].area = R(150)
         /\ rows[k].chainage_m = R(0) /\ rows[k + 1].chainage_m = R(20)
         /\ ~args.fixedSpacing.def )
       => rows[k].segVolume = R(3000)

C5_Witness ==
  /\ pc = "done"
  /\ ~args.fixedSpacing.def
  /\ \E k \in HandledPairs :
       /\ rows[k].area = R(150) /\ rows[k + 1].area = R(150)
       /\ rows[k].chainage_m = R(0) /\ rows[k + 1].chainage_m = R(20)
       /\ rows[k].segVolume = R(3000)

\* C6: L is the caller's fixedSpacing when it is defined, not NaN and > 0, and
\* the absolute chainage difference of the pair otherwise; L is never negative
C6_SpacingRule ==
  (pc \in {"pass2", "done"} /\ i >= 1)
    => /\ L = ClaimedSpacing(i)
       /\ RGe(L, R(0))
       /\ rows[i].spacing = round3(L)

C6_Witness ==
  /\ pc = "pass2"
  /\ i >= 1
  /\ args.fixedSpacing.def
  /\ args.fixedSpacing.val = R(-5)
  /\ L = MathAbs(RSub(rows[i + 1].chainage_m, rows[i].chainage_m))
  /\ RGt(L, R(0))

\* one step of the second pass, seen from outside: the row it handles, the
\* volume it stored and what it added to the totals
C7_Step ==
  (pc = "pass2" /\ pc' = "pass2" /\ i' = i + 1) =>
    LET r  == rows[i + 1]
        V  == rows'[i + 1].segVolume
        dC == RSub(totalCut', totalCut)
        dF == RSub(totalFill', totalFill)
    IN  /\ r.type = "Cut" => (dC = V /\ dF = R(0))
        /\ r.type = "Fill" => (dC = R(0) /\ dF = V)
        /\ r.type = "Mixed" =>
             /\ dC = RDiv(RMul(V, r.areaCut), r.area)
             /\ dF = RDiv(RMul(V, r.areaFill), r.area)

\* C7: a Cut row adds V to totalCut only, a Fill row adds V to totalFill only,
\* a Mixed row adds V x areaCut / area and V x areaFill / area
\* (area 100, areaCut 30, areaFill 70, V 50 adds 15 and 35)
C7_Apportionment ==
  /\ Apportion([type |-> "Mixed", area |-> R(100), areaCut |-> R(30), areaFill |-> R(70)], R(50))
       = <<R(15), R(35)>>
  /\ [][C7_Step]_vars

C7_Witness ==
  /\ pc = "pass2"
  /\ i >= 1
  /\ rows[i].type = "Mixed"
  /\ RGt(rows[i].segVolume, R(0))
  /\ RGt(totalCut, R(0))
  /\ RGt(totalFill, R(0))

\* C8: a step of the second pass on a Level row leaves both totals unchanged
C8_LevelAddsNothing ==
  [][(pc = "pass2" /\ pc' = "pass2" /\ i' = i + 1 /\ rows[i + 1].type = "Level")
       => (totalCut' = totalCut /\ totalFill' = totalFill)]_vars

\* C9 as stated: the stored net is the stored totalCut minus the stored totalFill
C9_NetOfStoredTotals ==
  pc = "done" =>
    result.summary.net = RSub(result.summary.totalCut, result.summary.totalFill)

\* C9 as amended: the stored net is the unrounded totalCut - totalFill rounded
\* to 3 decimals, and is within 0.001 of the difference of the stored totals
C9_NetWithinRounding ==
  pc = "done" =>
    /\ result.summary.net = round3(RSub(totalCut, totalFill))
    /\ RLe(MathAbs(RSub(result.summary.net,
                        RSub(result.summary.totalCut, result.summary.totalFill))), Milli)

C9_Witness ==
  /\ pc = "done"
  /\ result.summary.net # RSub(result.summary.totalCut, result.summary.totalFill)

\* the data lines among the first n lines that the first pass accepts
Accepted(n) ==
  LET ok(k) == LET cols == Fields(lines[k])
               IN  /\ Len(cols) >= 2
                   /\ ~isNaN(chainageToMeters(At(cols, colMap["ch"])))
                   /\ ~isNaN(pNum(At(cols, colMap["fgl"])))
      F[k \in 1..n] ==
        IF k = 1 THEN <<>>
        ELSE IF ok(k) THEN Append(F[k - 1], Fields(lines[k])) ELSE F[k - 1]
  IN  IF n < 2 THEN <<>> ELSE F[n]

\* row k is the row of the accepted line cols
RowOfLine(row, cols) ==
  /\ row.chainage = At(cols, colMap["ch"])
  /\ row.chainage_m = chainageToMeters(At(cols, colMap["ch"]))
  /\ row.fglC = round3(pNum(At(cols, colMap["fgl"])))

RowsFollowLines(rs, n) ==
  LET acc == Accepted(n)
  IN  /\ Len(rs) = Len(acc)
      /\ \A k \in 1..Len(rs) : RowOfLine(rs[k], acc[k])

\* the second pass changes nothing of a row but its spacing and its segVolume
SameStations(rs1, rs2) ==
  /\ Len(rs1) = Len(rs2)
  /\ \A k \in 1..Len(rs1) :
       [rs2[k] EXCEPT !.spacing = Null, !.segVolume = R(0)]
         = [rs1[k] EXCEPT !.spacing = Null, !.segVolume = R(0)]

C10_RowsInOrder ==
  /\ (pc = "pass2" /\ i = 0) => RowsFollowLines(rows, Len(lines))
  /\ pc = "done" => RowsFollowLines(result.rows, Len(lines))

\* a step of the second pass touches the row it handles alone, and the volume
\* it stores there pairs that row with its immediate successor
C10_PairsSuccessor ==
  (pc = "pass2" /\ pc' = "pass2" /\ i' = i + 1) =>
    /\ \A k \in 1..Len(rows) : k # i + 1 => rows'[k] = rows[k]
    /\ rows'[i + 1].segVolume =
         round3(RMul(RDiv(RAdd(rows[i + 1].area, rows[i + 2].area), R(2)), L'))
    /\ L' \in {MathAbs(RSub(rows[i + 2].chainage_m, rows[i + 1].chainage_m)),
               args.fixedSpacing.val}

\* C10: the rows are the accepted data lines in input order, one row each; the
\* second pass neither reorders, adds nor removes rows, and pairs each row only
\* with its immediate successor
C10_OrderPreserved ==
  /\ []C10_RowsInOrder
  /\ [][pc = "pass2" => SameStations(rows, rows')]_vars
  /\ [][C10_PairsSuccessor]_vars

C10_Witness ==
  /\ pc = "done"
  /\ Len(result.rows) = 2
  /\ Len(lines) = 4
  /\ result.rows[1].chainage # result.rows[2].chainage
  /\ result.rows[1].spacing # Null

\* the rows as the second pass holds them: written up to row i, untouched after
C11_RowsWritten ==
  pc \in {"pass2", "done"} =>
    /\ \A k \in 1..Len(rows) :
         IF k <= i
         THEN rows[k].spacing # Null /\ k <= Len(rows) - 1
         ELSE rows[k].spacing = Null /\ rows[k].segVolume = R(0)
    /\ pc = "done" =>
         /\ result.rows = rows
         /\ i = (IF Len(rows) = 0 THEN 0 ELSE Len(rows) - 1)
         /\ Len(rows) = 1 => (totalCut = R(0) /\ totalFill = R(0))

\* a step that changes the rows or the totals is a step of the second pass on
\* a row that has a successor and has not been written; it changes spacing and
\* segVolume of that row and nothing else
C11_WriteOnce ==
  (pc \in {"pass2", "done"} /\ <<rows, totalCut, totalFill>>' # <<rows, totalCut, totalFill>>) =>
    /\ pc = "pass2"
    /\ i + 1 <= Len(rows) - 1
    /\ rows[i + 1].spacing = Null
    /\ rows'[i + 1].spacing # Null
    /\ Len(rows') = Len(rows)
    /\ \A k \in 1..Len(rows) : k # i + 1 => rows'[k] = rows[k]
    /\ [rows'[i + 1] EXCEPT !.spacing = Null, !.segVolume = R(0)] = rows[i + 1]

\* C11: the second pass writes spacing and segVolume once on each row but the
\* last and changes no other field; the last row keeps spacing null and
\* segVolume 0 and no step of the pass is taken for it
C11_SecondPassFrame ==
  /\ []C11_RowsWritten
  /\ [][C11_WriteOnce]_vars

C11_Witness ==
  /\ pc = "done"
  /\ Len(result.rows) = 3
  /\ result.rows[1].spacing # Null
  /\ result.rows[2].spacing # Null
  /\ result.rows[3].spacing = Null
  /\ result.rows[3].segVolume = R(0)
  /\ RGt(result.rows[3].area, R(0))
  /\ RGt(result.rows[2].segVolume, R(0))

(* ------------------------------------------------------------------ *)
(* chainageToMeters alone                                               *)
(* ------------------------------------------------------------------ *)
MaxTokenLen == 4

TokenChars == {"0", "1", "5", "+", ",", "m", "."}

\* the chainage tokens given to chainageToMeters: every string over TokenChars
\* up to MaxTokenLen, and longer tokens of the forms a data file holds
Tokens ==
  SeqsUpTo(TokenChars, MaxTokenLen)
    \cup { <<"0", "+", "0", "2", "0">>, <<"1", "+", "0", "0", "5">>, <<"2", "5", "0">>,
           <<"1", "2", ",", "5", "0", "0", "m">>, <<"1", "2", "+", "9", "9", "9">>,
           <<"1", "+", "0", "0", "5", "5">>, <<" ", "3", "+", "7", " ">>,
           <<"-", "2", ".", "5">>, <<"1", "0", ".", "4", "9", "M">>,
           <<"1", " ", "0", "0", "0">>, <<"x", "5">> }

ChainageInit ==
  /\ args \in {[fn |-> "chainageToMeters", token |-> t] : t \in Tokens}
  /\ lines = <<>>
  /\ colMap = NoColMap
  /\ rows = <<>>
  /\ i = 0
  /\ L = NaN
  /\ totalCut = R(0)
  /\ totalFill = R(0)
  /\ result = NoResult
  /\ error = ""
  /\ pc = "call"

\* lines 13-23: the call and its return value
ChainageCall ==
  /\ pc = "call"
  /\ args.fn = "chainageToMeters"
  /\ result' = chainageToMeters(args.token)
  /\ pc' = "returned"
  /\ UNCHANGED <<args, lines, colMap, rows, i, L, totalCut, totalFill, error>>

ChainageNext == ChainageCall

ChainageSpec == ChainageInit /\ [][ChainageNext]_vars

\* t is km '+' remainder: digits, '+', one to three digits; p is the place of '+'
IsKmPlus(t, p) ==
  /\ p \in 2..(Len(t) - 1)
  /\ t[p] = "+"
  /\ Len(t) - p \in 1..3
  /\ \A k \in 1..Len(t) : k # p => IsDigit(t[k])

\* the natural number a string of digits denotes
NatOf(ds) ==
  LET F[k \in 0..Len(ds)] == IF k = 0 THEN 0 ELSE 10 * F[k - 1] + DigitVal(ds[k])
  IN  F[Len(ds)]

\* t with its commas and one trailing 'm' taken away
PlainOf(t) ==
  LET u == IF t # <<>> /\ t[Len(t)] \in {"m", "M"} THEN SubSeq(t, 1, Len(t) - 1) ELSE t
  IN  SelectSeq(u, LAMBDA c : c # ",")

\* s is an unsigned decimal numeral: digits with at most one point and at least
\* one digit
IsNumeral(s) ==
  /\ \A k \in 1..Len(s) : IsDigit(s[k]) \/ s[k] = "."
  /\ Cardinality({k \in 1..Len(s) : s[k] = "."}) <= 1
  /\ \E k \in 1..Len(s) : IsDigit(s[k])

\* the value of a numeral
NumeralValue(s) ==
  LET ds == SelectSeq(s, IsDigit)
      nf == IF \E k \in 1..Len(s) : s[k] = "."
            THEN Len(s) - (CHOOSE k \in 1..Len(s) : s[k] = ".")
            ELSE 0
  IN  Rat(NatOf(ds), Pow10(nf))

\* n is an integer nearest to v
IsNearestInteger(n, v) == n[2] = 1 /\ RLe(MathAbs(RSub(n, v)), Rat(1, 2))

\* C12: km '+' remainder gives km x 1000 + remainder, the remainder read as a
\* whole number of metres; a plain number, its commas and trailing 'm'
\* stripped, gives the nearest integer; "0+020" gives 20, "1+005" 1005,
\* "250" 250 and "12,500m" 12500
C12_ChainageDecoding ==
  pc = "returned" =>
    LET t == trim(args.token)
    IN  /\ \A p \in 1..Len(t) :
             IsKmPlus(t, p) =>
               result = R(NatOf(SubSeq(t, 1, p - 1)) * 1000 + NatOf(SubSeq(t, p + 1, Len(t))))
        /\ IsNumeral(PlainOf(t)) => IsNearestInteger(result, NumeralValue(PlainOf(t)))
        /\ args.token = <<"0", "+", "0", "2", "0">> => result = R(20)
        /\ args.token = <<"1", "+", "0", "0", "5">> => result = R(1005)
        /\ args.token = <<"2", "5", "0">> => result = R(250)
        /\ args.token = <<"1", "2", ",", "5", "0", "0", "m">> => result = R(12500)

C12_Witness ==
  /\ pc = "returned"
  /\ args.token = <<"1", "+", "5">>
  /\ result = R(1005)

(* ------------------------------------------------------------------ *)
(* The ground values of a row: computeEarthwork on one or two lines     *)
(* ------------------------------------------------------------------ *)
MaxGroundLines == 2

\* headers with no, some and all ground columns
HdrBare           == <<"C", "h", "a", "i", "n", "a", "g", "e", ",", "F", "R", "L">>
HdrPartial        == <<"C", "h", "a", "i", "n", "a", "g", "e", ",", "F", "R", "L", ",", "L", "1", "5", ",", "M", "e", "d", "_", "L", ",", "M", "e", "d", "_", "R">>
HdrPartialGeneric == <<"C", "h", "a", "i", "n", "a", "g", "e", ",", "F", "R", "L", ",", "L", "1", "5", ",", "G", "r", "o", "u", "n", "d">>
HdrAll            == <<"C", "h", "a", "i", "n", "a", "g", "e", ",", "F", "R", "L", ",", "L", "1", "5", ",", "M", "e", "d", "_", "L", ",", "M", "e", "d", "_", "R", ",", "R", "1", "5", ",", "E", "G", "L">>

\* data lines with four, fewer and unreadable ground fields
LinePos7    == <<"0", "+", "0", "0", "0", ",", "5", ",", "1", ",", "2", ",", "3", ",", "4", ",", "9">>
LinePosBad  == <<"0", "+", "0", "2", "0", ",", "5", ",", "x", ",", "2", ",", "3", ",", "4">>
LineShort4  == <<"0", "+", "0", "4", "0", ",", "5", ",", "1", ",", "2">>
LineDash    == <<"0", "+", "0", "6", "0", ",", "5", ",", "1", ",", "-", ",", "3", ",", "4">>
LineNoRight == <<"0", "+", "0", "8", "0", ",", "5", ",", "1", ",", "2", ",", "x", ",", "y", ",", "7">>

GroundInputs ==
  {Call(h, d, Params(R(20), R(0), NoSpacing)) :
     h \in {HdrBare, HdrPartial, HdrPartialGeneric, HdrAll},
     d \in SeqsUpTo({LinePos7, LinePosBad, LineShort4, LineDash, LineNoRight, LineGood},
                    MaxGroundLines)}

GroundInit ==
  /\ args \in GroundInputs
  /\ lines = <<>>
  /\ colMap = NoColMap
  /\ rows = <<>>
  /\ i = 0
  /\ L = NaN
  /\ totalCut = R(0)
  /\ totalFill = R(0)
  /\ result = NoResult
  /\ error = ""
  /\ pc = "start"

GroundSpec == GroundInit /\ [][Next]_vars

\* a field of the header hdr falls in slot s
HasSlot(hdr, s) == \E k \in 1..Len(hdr) : Slot(hdr[k]) = s

\* field n of a line, counted from 1, read as a number
FieldNum(cols, n) == IF n <= Len(cols) THEN pNum(cols[n]) ELSE NaN

\* the field of a line under the header field of slot s, read as a number
SlotNum(hdr, cols, s) == FieldNum(cols, CHOOSE k \in 1..Len(hdr) : Slot(hdr[k]) = s)

\* the source C13 gives the four ground values of a line
ClaimedSource(hdr, cols) ==
  IF HasSlot(hdr, "l15") /\ HasSlot(hdr, "med_l") /\ HasSlot(hdr, "med_r") /\ HasSlot(hdr, "r15")
  THEN "offsets"
  ELSE IF HasSlot(hdr, "egl_generic") THEN "generic"
  ELSE IF Len(cols) >= 6 /\ ~isNaN(FieldNum(cols, 3)) /\ ~isNaN(FieldNum(cols, 6))
       THEN "positional"
       ELSE "formation"

\* the four values of a source, before any sanitization
GroundOfSource(src, hdr, cols) ==
  IF src = "offsets"
  THEN <<SlotNum(hdr, cols, "l15"), SlotNum(hdr, cols, "med_l"), SlotNum(hdr, cols, "med_r"),
         SlotNum(hdr, cols, "r15")>>
  ELSE IF src = "generic"
       THEN [j \in 1..4 |-> SlotNum(hdr, cols, "egl_generic")]
       ELSE IF src = "positional"
            THEN <<FieldNum(cols, 3), FieldNum(cols, 4), FieldNum(cols, 5), FieldNum(cols, 6)>>
            ELSE [j \in 1..4 |-> SlotNum(hdr, cols, "fgl")]

ClaimedGround(hdr, cols) == GroundOfSource(ClaimedSource(hdr, cols), hdr, cols)

\* the ground values stored in a row
StoredGround(row) == <<row.egl15L, row.eglMedL, row.eglMedR, row.egl15R>>

\* stored holds, rounded, every value that claimed gives
StoresGiven(stored, claimed) ==
  \A j \in 1..4 : ~isNaN(claimed[j]) => stored[j] = round3(claimed[j])

\* the rows rs are the lines acc, each with the ground values of its source
GroundFollowsSource(rs, hdr, acc) ==
  /\ Len(rs) = Len(acc)
  /\ \A k \in 1..Len(rs) : StoresGiven(StoredGround(rs[k]), ClaimedGround(hdr, acc[k]))

\* C13: the ground values of a row are those of the first applicable source:
\* the four offset columns, else the generic column, else fields 3 to 6 of a
\* line of six fields or more whose fields 3 and 6 are numeric, else the
\* formation level (a value the source gives is stored rounded to 3 decimals)
C13_GroundSourcePriority ==
  pc = "done" => GroundFollowsSource(result.rows, Headers(lines[1]), Accepted(Len(lines)))

C13_Witness ==
  /\ pc = "done"
  /\ ~HasSlot(Headers(lines[1]), "egl_generic")
  /\ ~HasSlot(Headers(lines[1]), "r15")
  /\ Len(result.rows) = 2
  /\ StoredGround(result.rows[1]) = <<R(1), R(2), R(3), R(4)>>
  /\ StoredGround(result.rows[2]) = <<R(5), R(5), R(5), R(5)>>

\* v when it is a number, else the substitute
OrElse(v, substitute) == IF isNaN(v) THEN substitute ELSE v

\* the ground values C14 gives for the values g of the source and the
\* formation level fgl, each passed on to the next as its substitute
ThenMedL(g, e1) == <<e1, OrElse(g[2], e1)>>
ThenMedR(g, e12) == <<e12[1], e12[2], OrElse(g[3], e12[2])>>
Then15R(g, e123) == <<e123[1], e123[2], e123[3], OrElse(g[4], e123[3])>>
ClaimedSanitized(g, fgl) == Then15R(g, ThenMedR(g, ThenMedL(g, OrElse(g[1], fgl))))

\* the rows rs are the lines acc, each with its ground values sanitized, and
\* hold no NaN
GroundSanitized(rs, hdr, acc) ==
  /\ Len(rs) = Len(acc)
  /\ \A k \in 1..Len(rs) :
       /\ StoredGround(rs[k])
            = [j \in 1..4 |->
                 round3(ClaimedSanitized(ClaimedGround(hdr, acc[k]),
                                         SlotNum(hdr, acc[k], "fgl"))[j])]
       /\ \A j \in 1..4 : ~isNaN(StoredGround(rs[k])[j])

\* C14: a missing left-outer value becomes the formation level, a missing
\* left-median value the sanitized left-outer value, a missing right-median
\* value the left-median value, a missing right-outer value the right-median
\* value; no ground level stored in a row is NaN
C14_SanitizedLeftToRight ==
  pc = "done" => GroundSanitized(result.rows, Headers(lines[1]), Accepted(Len(lines)))

C14_Witness ==
  /\ pc = "done"
  /\ HasSlot(Headers(lines[1]), "r15")
  /\ Len(result.rows) = 2
  /\ result.rows[1].chainage = <<"0", "+", "0", "6", "0">>
  /\ StoredGround(result.rows[1]) = <<R(1), R(1), R(3), R(4)>>
  /\ result.rows[2].chainage = <<"0", "+", "0", "4", "0">>
  /\ StoredGround(result.rows[2]) = <<R(1), R(2), R(2), R(2)>>

(* ------------------------------------------------------------------ *)
(* getInterpolatedEGL alone                                             *)
(* ------------------------------------------------------------------ *)
MaxOffset == 2

\* the ground profile of a station has four points (lines 157-162)
ProfilePoints == 4

\* a distance far beyond every offset
FarOut == Pow10(6)

\* profiles sorted by offset, the outermost offsets apart as -15 and 15 are
\* (equal inner offsets are the median of width 0)
Profiles ==
  {[k \in 1..ProfilePoints |-> Pt(R(xs[k]), R(ys[k]))] :
     xs \in {s \in [1..ProfilePoints -> (-MaxOffset)..MaxOffset] :
               /\ \A k \in 1..(ProfilePoints - 1) : s[k] <= s[k + 1]
               /\ s[1] < s[ProfilePoints]},
     ys \in [1..ProfilePoints -> {0, 3}]}

\* the offsets asked for: every half unit around the profile, and far out
Abscissas ==
  {Rat(h, 2) : h \in (-2 * MaxOffset - 2)..(2 * MaxOffset + 2)} \cup {R(-FarOut), R(FarOut)}

EglInit ==
  /\ args \in {[fn |-> "getInterpolatedEGL", x |-> x, groundProfile |-> gp] :
                 x \in Abscissas, gp \in Profiles}
  /\ lines = <<>>
  /\ colMap = NoColMap
  /\ rows = <<>>
  /\ i = 0
  /\ L = NaN
  /\ totalCut = R(0)
  /\ totalFill = R(0)
  /\ result = NoResult
  /\ error = ""
  /\ pc = "call"

\* lines 53-72: the call and its return value
EglCall ==
  /\ pc = "call"
  /\ args.fn = "getInterpolatedEGL"
  /\ result' = getInterpolatedEGL(args.x, args.groundProfile)
  /\ pc' = "returned"
  /\ UNCHANGED <<args, lines, colMap, rows, i, L, totalCut, totalFill, error>>

EglNext == EglCall

EglSpec == EglInit /\ [][EglNext]_vars

\* y is on the straight line from p to q at offset x, p and q apart and x
\* between them
InterpolatesBetween(y, x, p, q) ==
  /\ RLt(p.x, q.x)
  /\ RLe(p.x, x)
  /\ RLe(x, q.x)
  /\ RMul(RSub(y, p.y), RSub(q.x, p.x)) = RMul(RSub(q.y, p.y), RSub(x, p.x))

\* C15: at or below the least offset the first elevation, at or above the
\* greatest the last one, whatever the distance; between them the linear
\* interpolation of the two points around x; never NaN
C15_FlatBeyondProfile ==
  pc = "returned" =>
    LET gp == args.groundProfile
        n  == Len(gp)
    IN  /\ RLe(args.x, gp[1].x) => result = gp[1].y
        /\ RGe(args.x, gp[n].x) => result = gp[n].y
        /\ (RGt(args.x, gp[1].x) /\ RLt(args.x, gp[n].x)) =>
             \E k \in 1..(n - 1) : InterpolatesBetween(result, args.x, gp[k], gp[k + 1])
        /\ ~isNaN(result)

C15_Witness ==
  /\ pc = "returned"
  /\ args.x = R(FarOut)
  /\ args.groundProfile[3].y = R(0)
  /\ args.groundProfile[4].y = R(3)
  /\ args.groundProfile[3].x # args.groundProfile[4].x
  /\ result = R(3)

(* ------------------------------------------------------------------ *)
(* The section of a row: computeEarthwork on one or two template lines  *)
(* ------------------------------------------------------------------ *)
MaxSectionLines == 2

\* crown 100 over flat ground at 95
LineScenarioA == <<"0", "+", "0", "2", "0", ",", "1", "0", "0", ",", "9", "5", ",", "9", "5", ",", "9", "5", ",", "9", "5">>

\* the parameters of a call with camber 0 and cut slope 1
SectionParams(B, fillSlope) ==
  [B |-> B, medianWidth |-> R(4), camber |-> R(0), cutSlope |-> R(1), fillSlope |-> fillSlope,
   fixedSpacing |-> NoSpacing]

SectionCalls(pool, prms) ==
  {Call(HdrTemplate, d, prm) : d \in SeqsUpTo(pool, MaxSectionLines), prm \in prms}

\* fill, cut and both in one section; on the sections that are all fill or
\* all cut, a fill slope of four decimals and one too flat for the ray of
\* lines 212 and 223 to reach the ground
SectionInputs ==
  SectionCalls({LineScenarioA, LineThinFill, LineCut, LineMixed},
               {SectionParams(R(20), R(2)), SectionParams(R(2), R(3))})
    \cup SectionCalls({LineScenarioA, LineThinFill, LineCut},
                      {SectionParams(R(20), Rat(13125, 10000)), SectionParams(R(20), R(300))})

SectionInit ==
  /\ args \in SectionInputs
  /\ lines = <<>>
  /\ colMap = NoColMap
  /\ rows = <<>>
  /\ i = 0
  /\ L = NaN
  /\ totalCut = R(0)
  /\ totalFill = R(0)
  /\ result = NoResult
  /\ error = ""
  /\ pc = "start"

SectionSpec == SectionInit /\ [][Next]_vars

\* the toes of section s lie at or beyond the edges of a formation of width B,
\* and row holds their distances from the edges and from each other
ToesOutside(row, s, B) ==
  /\ RLe(s.toeL.x, RNeg(RDiv(B, R(2))))
  /\ RGe(s.toeR.x, RDiv(B, R(2)))
  /\ row.distL = round3(RSub(RNeg(RDiv(B, R(2))), s.toeL.x))
  /\ row.distR = round3(RSub(s.toeR.x, RDiv(B, R(2))))
  /\ RGe(row.distL, R(0))
  /\ RGe(row.distR, R(0))
  /\ RGe(row.bottomWidth, row.B)

\* C16: in every row the left toe is at or left of -B/2 and the right toe at
\* or right of +B/2, so distL >= 0, distR >= 0 and bottomWidth >= B (the B
\* stored in the row)
C16_ToesOutsideEdges ==
  pc = "done" =>
    \A k \in 1..Len(result.rows) :
      ToesOutside(result.rows[k], LineSection(Accepted(Len(lines))[k], colMap, args), args.B)

C16_Witness ==
  /\ pc = "done"
  /\ Len(result.rows) = 2
  /\ result.rows[1].distL = R(0)
  /\ result.rows[1].bottomWidth = result.rows[1].B
  /\ RGt(result.rows[1].area, R(0))
  /\ RGt(result.rows[2].distL, R(0))
  /\ RGt(result.rows[2].distR, R(0))

\* row is a camberless section over flat ground below the crown
IsFlatFill(row) ==
  /\ row.camberDrop = R(0)
  /\ row.eglMedL = row.egl15L
  /\ row.eglMedR = row.egl15L
  /\ row.egl15R = row.egl15L
  /\ RGt(row.fglC, row.egl15L)

\* the depth of the ground below the crown
DepthOf(row) == RSub(row.fglC, row.egl15L)

\* the area B x d + M x d^2 of a fill of depth d
FillArea(B, M, d) == RAdd(RMul(B, d), RMul(M, RMul(d, d)))

\* both toes of row lie run beyond the edges of a formation of width B
ToesBeyond(row, B, run) ==
  /\ row.distL = round3(run)
  /\ row.distR = round3(run)
  /\ row.bottomWidth = round3(RAdd(B, RMul(R(2), run)))

\* what C17 states of a flat fill
IsPlainFill(row, B, M) ==
  /\ ToesBeyond(row, B, RMul(M, DepthOf(row)))
  /\ row.areaFill = round3(FillArea(B, M, DepthOf(row)))
  /\ row.areaCut = R(0)
  /\ row.type = "Fill"

InFillRange(B, M, d) ==
  /\ RGe(RMul(M, d), Milli)
  /\ RLe(RAdd(RDiv(B, R(2)), RMul(M, d)), RayExtent)
  /\ RGt(FillArea(B, M, d), AreaEps)

RowNumbers(row) ==
  {row.chainage_m, row.fglC, row.egl15L, row.eglMedL, row.eglMedR, row.egl15R,
   row.camberDrop, row.hL, row.hR, row.B, row.medianWidth, row.usedSlope,
   row.distL, row.distR, row.bottomWidth, row.area, row.areaCut, row.areaFill,
   row.segVolume}
  \cup (IF row.spacing = Null THEN {} ELSE {row.spacing})

\* C18: every numeric value stored in a row is a value rounded to 3 decimals,
\* so that rounding it again leaves it unchanged
C18_RowValuesRounded ==
  pc = "done" =>
    \A k \in 1..Len(result.rows) :
      \A v \in RowNumbers(result.rows[k]) : round3(v) = v

\* the ratio of the side slope of a section on a side in cut or in fill
SideRatio(isCut, prm) == IF isCut THEN prm.cutSlope ELSE prm.fillSlope

\* C19: the usedSlope of a row is the ratio used for its left toe and the
\* ratio used for its right toe, also when one side is in cut and the other
\* in fill
C19_UsedSlopeBothSides ==
  pc = "done" =>
    \A k \in 1..Len(result.rows) :
      /\ result.rows[k].usedSlope
           = SideRatio(LineSection(Accepted(Len(lines))[k], colMap, args).isCutL, args)
      /\ result.rows[k].usedSlope
           = SideRatio(LineSection(Accepted(Len(lines))[k], colMap, args).isCutR, args)

(* ------------------------------------------------------------------ *)
(* generateCSV                                                          *)
(* ------------------------------------------------------------------ *)
RECURSIVE NatDigits(_)
\* the decimal digits of a natural number
NatDigits(n) ==
  IF n < 10 THEN <<Digits[n + 1]>>
  ELSE NatDigits(n \div 10) \o <<Digits[(n % 10) + 1]>>

\* the digits of n thousandths with the point before the last d of three
\* fraction digits
Thousandths(n, d) ==
  LET ds == padStart(NatDigits(n), 4)
  IN  SubSeq(ds, 1, Len(ds) - 3)
        \o (IF d = 0 THEN <<>> ELSE <<".">> \o SubSeq(ds, Len(ds) - 2, Len(ds) - 3 + d))

\* Number.prototype.toFixed(3): the magnitude rounded to thousandths, half
\* up, after the sign
toFixed3(x) ==
  IF isNaN(x) THEN <<"N", "a", "N">>
  ELSE (IF x[1] < 0 THEN <<"-">> ELSE <<>>)
         \o Thousandths(MathRound(RMul(MathAbs(x), R(1000)))[1], 3)

\* the number of fraction digits of n thousandths without trailing zeros
FractionDigits(n) ==
  IF n % 1000 = 0 THEN 0 ELSE IF n % 100 = 0 THEN 1 ELSE IF n % 10 = 0 THEN 2 ELSE 3

\* String(x) of a number of at most 3 decimals, as join writes a number:
\* the shortest decimal, no trailing zeros and no point for an integer
NumberToString(x) ==
  IF isNaN(x) THEN <<"N", "a", "N">>
  ELSE LET n == MathRound(RMul(MathAbs(x), R(1000)))[1]
       IN  (IF x[1] < 0 THEN <<"-">> ELSE <<>>) \o Thousandths(n, FractionDigits(n))

RECURSIVE join(_, _)
\* Array.prototype.join
join(parts, sep) ==
  IF parts = <<>> THEN <<>>
  ELSE IF Len(parts) = 1 THEN parts[1]
  ELSE parts[1] \o sep \o join(Tail(parts), sep)

\* the characters of a section type
TypeString(t) ==
  IF t = "Cut" THEN <<"C", "u", "t">>
  ELSE IF t = "Fill" THEN <<"F", "i", "l", "l">>
  ELSE IF t = "Mixed" THEN <<"M", "i", "x", "e", "d">>
  ELSE <<"L", "e", "v", "e", "l">>

\* lines 353-356
CsvHeader == <<"C", "h", "a", "i", "n", "a", "g", "e", ",", "P", "r", "o", "p", "o", "s", "e", "d", "_", "F", "R", "L", ",", "E", "G", "L", "_", "1", "5", "m", "_", "L", ",", "E", "G", "L", "_", "M", "e", "d", "_", "L", ",", "E", "G", "L", "_", "M", "e", "d", "_", "R", ",", "E", "G", "L", "_", "1", "5", "m", "_", "R", ",", "T", "y", "p", "e", ",", "W", "i", "d", "t", "h", "_", "F", "o", "r", "m", "a", "t", "i", "o", "n", ",", "W", "i", "d", "t", "h", "_", "T", "o", "e", "T", "o", "T", "o", "e", ",", "A", "r", "e", "a", "_", "C", "u", "t", "_", "m", "2", ",", "A", "r", "e", "a", "_", "F", "i", "l", "l", "_", "m", "2", ",", "S", "p", "a", "c", "i", "n", "g", "_", "m", ",", "V", "o", "l", "_", "m", "3">>

\* the truthiness of a number
Truthy(x) == ~isNaN(x) /\ x[1] # 0

\* lines 360-374: the line of a row
CsvLine(r) ==
  join(<<r.chainage, toFixed3(r.fglC), toFixed3(r.egl15L), toFixed3(r.eglMedL),
         toFixed3(r.eglMedR), toFixed3(r.egl15R), TypeString(r.type),
         toFixed3(r.B), toFixed3(r.bottomWidth), toFixed3(r.areaCut),
         toFixed3(r.areaFill),
         IF r.spacing # Null THEN toFixed3(r.spacing) ELSE <<>>,
         IF Truthy(r.segVolume) THEN toFixed3(r.segVolume) ELSE <<>>>>, <<",">>)

\* lines 352-383
generateCSV(res) ==
  join(<<CsvHeader>>
         \o [k \in 1..Len(res.rows) |-> CsvLine(res.rows[k])]
         \o << <<>>,
               join(<<<<"T", "o", "t", "a", "l", "C", "u", "t", "_", "m", "3">>, NumberToString(res.summary.totalCut)>>, <<",">>),
               join(<<<<"T", "o", "t", "a", "l", "F", "i", "l", "l", "_", "m", "3">>, NumberToString(res.summary.totalFill)>>, <<",">>),
               join(<<<<"N", "e", "t", "_", "m", "3">>, NumberToString(res.summary.net)>>, <<",">>) >>,
       <<"\n">>)

\* the export of a computed result; rows and the totals keep what the
\* result was made of
GenerateCSV ==
  /\ pc = "done"
  /\ result' = generateCSV(result)
  /\ pc' = "csv"
  /\ UNCHANGED <<args, lines, colMap, rows, i, L, totalCut, totalFill, error>>

CsvNext == Next \/ GenerateCSV

CsvSpec == SectionInit /\ [][CsvNext]_vars

(* ------------------------------------------------------------------ *)
(* C20                                                                  *)
(* ------------------------------------------------------------------ *)
\* the position of the n-th occurrence of the character sep in s, 0 for
\* n = 0 and Len(s) + 1 past the last one
SepAt(s, sep, n) ==
  LET at == {k \in 1..Len(s) : s[k] = sep}
  IN  IF n = 0 THEN 0
      ELSE IF n > Cardinality(at) THEN Len(s) + 1
      ELSE CHOOSE k \in at : Cardinality({m \in at : m < k}) = n - 1

\* the parts of s between the occurrences of the character sep
PartsOf(s, sep) ==
  [n \in 1..(Cardinality({k \in 1..Len(s) : s[k] = sep}) + 1) |->
     SubSeq(s, SepAt(s, sep, n - 1) + 1, SepAt(s, sep, n) - 1)]

\* s is a decimal numeral with exactly 3 decimal places
HasThreeDecimals(s) ==
  LET u == IF s # <<>> /\ Head(s) = "-" THEN Tail(s) ELSE s
  IN  /\ Len(u) >= 5
      /\ u[Len(u) - 3] = "."
      /\ \A k \in 1..Len(u) : k # Len(u) - 3 => IsDigit(u[k])

\* the positions of the numeric fields every line of a row has
RowNumberFields == {2, 3, 4, 5, 6, 8, 9, 10, 11}

\* the positions of the spacing and of the volume
SegmentFields == {12, 13}

\* f is the line of row r; outgoing tells that r has a following row
IsRowLine(f, r, outgoing) ==
  /\ Len(f) = 13
  /\ f[1] = r.chainage
  /\ f[7] = TypeString(r.type)
  /\ \A k \in RowNumberFields : HasThreeDecimals(f[k])
  /\ outgoing => \A k \in SegmentFields : HasThreeDecimals(f[k])

\* ln is the summary line of the given label
IsSummaryLine(ln, label) ==
  LET f == PartsOf(ln, ",")
  IN  Len(f) = 2 /\ f[1] = label /\ HasThreeDecimals(f[2])

\* out is laid out as a header, the lines of rs in order, a blank line and
\* the three summary lines
IsCsvOf(out, rs) ==
  /\ Len(out) = Len(rs) + 5
  /\ out[1] = CsvHeader
  /\ \A k \in 1..Len(rs) : IsRowLine(PartsOf(out[k + 1], ","), rs[k], k < Len(rs))
  /\ out[Len(rs) + 2] = <<>>
  /\ IsSummaryLine(out[Len(rs) + 3], <<"T", "o", "t", "a", "l", "C", "u", "t", "_", "m", "3">>)
  /\ IsSummaryLine(out[Len(rs) + 4], <<"T", "o", "t", "a", "l", "F", "i", "l", "l", "_", "m", "3">>)
  /\ IsSummaryLine(out[Len(rs) + 5], <<"N", "e", "t", "_", "m", "3">>)

\* C20: generateCSV emits the header line, one line per row in row order, a
\* blank line and the summary lines TotalCut_m3, TotalFill_m3 and Net_m3, and
\* every numeric field, the spacing and the volume of every row with an
\* outgoing segment and the three summary values included, has exactly 3
\* decimal places
C20_CsvThreeDecimals ==
  pc = "csv" => IsCsvOf(PartsOf(result, "\n"), rows)

(* ------------------------------------------------------------------ *)
(* The ground profile of a station alone                                *)
(* ------------------------------------------------------------------ *)
MaxMedianWidth == 32

\* the ground values of a station and a median width
ProfileInit ==
  /\ args \in {[fn |-> "groundPts", e |-> <<R(a), R(b), R(c), R(d)>>, medianWidth |-> R(w)] :
                 a \in {0, 3}, b \in {0, 3}, c \in {0, 3}, d \in {0, 3},
                 w \in 0..MaxMedianWidth}
  /\ lines = <<>>
  /\ colMap = NoColMap
  /\ rows = <<>>
  /\ i = 0
  /\ L = NaN
  /\ totalCut = R(0)
  /\ totalFill = R(0)
  /\ result = NoResult
  /\ error = ""
  /\ pc = "call"

\* lines 152-165: the profile made and sorted
ProfileCall ==
  /\ pc = "call"
  /\ args.fn = "groundPts"
  /\ result' = GroundPts(args.e, args.medianWidth)
  /\ pc' = "returned"
  /\ UNCHANGED <<args, lines, colMap, rows, i, L, totalCut, totalFill, error>>

ProfileNext == ProfileCall

ProfileSpec == ProfileInit /\ [][ProfileNext]_vars

\* C21: for every medianWidth >= 0, those at or above 30 included, the ground
\* profile has exactly 4 points, ascending by offset, no two at the same offset
C21_ProfileStrictlyAscending ==
  pc = "returned" =>
    /\ Len(result) = 4
    /\ \A k \in 1..3 : RLt(result[k].x, result[k + 1].x)

(* ------------------------------------------------------------------ *)
(* The section of one station alone                                     *)
(* ------------------------------------------------------------------ *)
\* ground levels around a crown at 5: far below, on a line parallel to a fill
\* slope of 1, just below, and above
GroundLevels == {Rat(-43, 2), Rat(-17, 2), Rat(9, 2), R(10)}

\* a narrow and a wide formation
StationParams ==
  {[B |-> R(2), cutSlope |-> R(1), fillSlope |-> R(1)],
   [B |-> R(20), cutSlope |-> R(1), fillSlope |-> R(2)]}

\* a fill slope whose ray ends above the ground
FlatSlopeParams == {[B |-> R(2), cutSlope |-> R(2), fillSlope |-> R(300)]}

StationCallsOf(levels, prms) ==
  {[fn |-> "section", fglC |-> R(5), e |-> <<a, b, c, d>>, B |-> p.B,
    medianWidth |-> R(4), camber |-> R(0), cutSlope |-> p.cutSlope,
    fillSlope |-> p.fillSlope] :
     a \in levels, b \in levels, c \in levels, d \in levels, p \in prms}

StationCalls ==
  StationCallsOf(GroundLevels, StationParams)
    \cup StationCallsOf({R(0), R(10)}, FlatSlopeParams)

StationInit ==
  /\ args \in StationCalls
  /\ lines = <<>>
  /\ colMap = NoColMap
  /\ rows = <<>>
  /\ i = 0
  /\ L = NaN
  /\ totalCut = R(0)
  /\ totalFill = R(0)
  /\ result = NoResult
  /\ error = ""
  /\ pc = "call"

\* lines 152-281: the section of the station computed
StationCall ==
  /\ pc = "call"
  /\ args.fn = "section"
  /\ result' = Section(args.fglC, args.e, args.B, args.medianWidth, args.camber,
                       args.cutSlope, args.fillSlope)
  /\ pc' = "returned"
  /\ UNCHANGED <<args, lines, colMap, rows, i, L, totalCut, totalFill, error>>

StationNext == StationCall

StationSpec == StationInit /\ [][StationNext]_vars

\* the ground profile, the formation and the side slopes of the call a
ProfileOf(a) == GroundPts(a.e, a.medianWidth)

FormationOf(a) ==
  Formation(a.fglC, ProfileOf(a), RDiv(a.B, R(2)),
            RMul(RDiv(a.B, R(2)), RDiv(a.camber, R(100))))

SlopesAt(a) == SideSlopes(FormationOf(a), a.cutSlope, a.fillSlope)

\* the intersections of the left and of the right slope ray with the segments
\* of the extended ground, numbered from the left
LeftHits(a) ==
  Hits(Pt(RNeg(RDiv(a.B, R(2))), FormationOf(a).fglL_edge),
       Pt(RSub(RNeg(RDiv(a.B, R(2))), RayExtent),
          RAdd(FormationOf(a).fglL_edge, RMul(SlopesAt(a).gradL, RNeg(RayExtent)))),
       ExtendedGround(ProfileOf(a)))

RightHits(a) ==
  Hits(Pt(RDiv(a.B, R(2)), FormationOf(a).fglR_edge),
       Pt(RAdd(RDiv(a.B, R(2)), RayExtent),
          RAdd(FormationOf(a).fglR_edge, RMul(SlopesAt(a).gradR, RayExtent))),
       ExtendedGround(ProfileOf(a)))

\* the hits at or beyond the left and the right formation edge
BeyondLeft(hit, halfB) == {j \in DOMAIN hit : ~IsNull(hit[j]) /\ RLe(hit[j].x, RNeg(halfB))}

BeyondRight(hit, halfB) == {j \in DOMAIN hit : ~IsNull(hit[j]) /\ RGe(hit[j].x, halfB)}

\* the toe of the left side searched from the outermost segment inward: the
\* hit of the least segment number, the edge when there is none
OutermostLeft(hit, halfB, edge) ==
  IF BeyondLeft(hit, halfB) = {} THEN edge
  ELSE hit[CHOOSE j \in BeyondLeft(hit, halfB) : \A k \in BeyondLeft(hit, halfB) : j <= k]

\* the same on the right side: the hit of the greatest segment number
OutermostRight(hit, halfB, edge) ==
  IF BeyondRight(hit, halfB) = {} THEN edge
  ELSE hit[CHOOSE j \in BeyondRight(hit, halfB) : \A k \in BeyondRight(hit, halfB) : j >= k]

\* C22: on each side the toe is the first intersection at or beyond the
\* formation edge met when the segments are visited from the outermost one of
\* that side inward
C22_OutermostSegmentFirst ==
  pc = "returned" =>
    /\ result.toeL = OutermostLeft(LeftHits(args), RDiv(args.B, R(2)),
                                   Pt(RNeg(RDiv(args.B, R(2))), result.gL_at_edge))
    /\ result.toeR = OutermostRight(RightHits(args), RDiv(args.B, R(2)),
                                    Pt(RDiv(args.B, R(2)), result.gR_at_edge))

\* no segment of the extended ground is met by the ray
NoHit(hit) == \A j \in DOMAIN hit : IsNull(hit[j])

\* the segments p3-p4 of ext parallel to the ray from p1 to p2 give no point
ParallelSkipped(hit, p1, p2, ext) ==
  \A j \in DOMAIN hit :
    RMul(RSub(ext[j + 1].y, ext[j].y), RSub(p2.x, p1.x))
      = RMul(RSub(ext[j + 1].x, ext[j].x), RSub(p2.y, p1.y))
    => IsNull(hit[j])

\* the offsets between lo and hi at which the road or the ground may bend,
\* with lo and hi themselves
Bends(a, lo, hi) ==
  SortNums({lo, hi}
    \cup {x \in {RNeg(RDiv(a.B, R(2))), R(0), RDiv(a.B, R(2))}
                  \cup {ProfileOf(a)[k].x : k \in 1..4} : RLt(lo, x) /\ RLt(x, hi)})

\* the height of the ground above the road at offset x
GroundAboveRoad(a, x) ==
  RSub(getInterpolatedEGL(x, ProfileOf(a)), roadY(x, FormationOf(a), SlopesAt(a)))

RECURSIVE Trapezia(_, _, _)
\* the area under GroundAboveRoad over the first k offsets of xs, the ground
\* below the road counted negative
Trapezia(a, xs, k) ==
  IF k <= 1 THEN R(0)
  ELSE RAdd(Trapezia(a, xs, k - 1),
            RMul(RDiv(RAdd(GroundAboveRoad(a, xs[k - 1]), GroundAboveRoad(a, xs[k])), R(2)),
                 RSub(xs[k], xs[k - 1])))

\* the cut less the fill between the offsets lo and hi
NetBetween(a, lo, hi) == Trapezia(a, Bends(a, lo, hi), Len(Bends(a, lo, hi)))

\* C23: a side whose slope ray meets no segment of the extended ground (a
\* parallel segment gives no point) has its toe at the formation edge, at
\* distance 0, and the areas are those between the two toes: the edge of that
\* side and the toe of the other
C23_NoHitToeAtEdge ==
  pc = "returned" =>
    /\ ParallelSkipped(LeftHits(args),
                       Pt(RNeg(RDiv(args.B, R(2))), result.fglL_edge),
                       Pt(RSub(RNeg(RDiv(args.B, R(2))), RayExtent),
                          RAdd(result.fglL_edge, RMul(SlopesAt(args).gradL, RNeg(RayExtent)))),
                       ExtendedGround(ProfileOf(args)))
    /\ ParallelSkipped(RightHits(args),
                       Pt(RDiv(args.B, R(2)), result.fglR_edge),
                       Pt(RAdd(RDiv(args.B, R(2)), RayExtent),
                          RAdd(result.fglR_edge, RMul(SlopesAt(args).gradR, RayExtent))),
                       ExtendedGround(ProfileOf(args)))
    /\ NoHit(LeftHits(args)) =>
         /\ result.toeL = Pt(RNeg(RDiv(args.B, R(2))), result.gL_at_edge)
         /\ round3(MathAbs(RSub(result.toeL.x, RNeg(RDiv(args.B, R(2)))))) = R(0)
    /\ NoHit(RightHits(args)) =>
         /\ result.toeR = Pt(RDiv(args.B, R(2)), result.gR_at_edge)
         /\ round3(MathAbs(RSub(result.toeR.x, RDiv(args.B, R(2))))) = R(0)
    /\ (NoHit(LeftHits(args)) \/ NoHit(RightHits(args))) =>
         RSub(result.areaCut, result.areaFill)
           = NetBetween(args, result.toeL.x, result.toeR.x)

\* the left ray meets nothing and the right one does: the section runs from
\* the left edge to the right toe
C23_Witness ==
  /\ pc = "returned"
  /\ NoHit(LeftHits(args))
  /\ ~NoHit(RightHits(args))
  /\ result.toeL.x = RNeg(RDiv(args.B, R(2)))
  /\ RGt(result.toeR.x, RDiv(args.B, R(2)))
  /\ RGt(result.areaFill, R(0))
  /\ RGt(result.areaCut, R(0))

(* ------------------------------------------------------------------ *)
(* The toes drawn from a row                                            *)
(* ------------------------------------------------------------------ *)
\* generateDXF, lines 110-111: the offsets of pToeL and pToeR
DxfToes(row) == [L |-> RNeg(row.distL), R |-> row.distR]

\* generatePDF, lines 120-121: the offsets of pToeL and pToeR
PdfToes(row) == [L |-> RNeg(row.distL), R |-> row.distR]

\* Visualizer getCoords, lines 48-51: xToeL and xToeR
VisualizerToes(row) ==
  [L |-> RSub(RDiv(RNeg(row.B), R(2)), row.distL),
   R |-> RAdd(RDiv(row.B, R(2)), row.distR)]

\* the offsets t are those of the toes of the section s, within 0.001
AreToesOf(t, s) ==
  /\ RLe(MathAbs(RSub(t.L, s.toeL.x)), Milli)
  /\ RLe(MathAbs(RSub(t.R, s.toeR.x)), Milli)

\* C24: the toe offsets of the DXF and PDF exporters and those of the
\* visualizer are the toe offsets computed for the row, up to the rounding
C24_DrawnToesAreComputedToes ==
  pc = "done" =>
    \A k \in 1..Len(result.rows) :
      /\ AreToesOf(DxfToes(result.rows[k]), LineSection(Accepted(Len(lines))[k], colMap, args))
      /\ AreToesOf(PdfToes(result.rows[k]), LineSection(Accepted(Len(lines))[k], colMap, args))
      /\ AreToesOf(VisualizerToes(result.rows[k]),
                   LineSection(Accepted(Len(lines))[k], colMap, args))

\* the call a with the left and the right ground values exchanged
Mirrored(a) == [a EXCEPT !.e = <<a.e[4], a.e[3], a.e[2], a.e[1]>>]

\* the section of the call a
SectionOf(a) ==
  Section(a.fglC, a.e, a.B, a.medianWidth, a.camber, a.cutSlope, a.fillSlope)

\* the toe distances of the section s of a formation of width B
DistL(s, B) == round3(MathAbs(RSub(s.toeL.x, RNeg(RDiv(B, R(2))))))

DistR(s, B) == round3(MathAbs(RSub(s.toeR.x, RDiv(B, R(2)))))

\* s and m are mirror images of each other
IsMirrorOf(s, m, B) ==
  /\ DistL(m, B) = DistR(s, B)
  /\ DistR(m, B) = DistL(s, B)
  /\ round3(RSub(m.toeR.x, m.toeL.x)) = round3(RSub(s.toeR.x, s.toeL.x))
  /\ round3(m.areaCut) = round3(s.areaCut)
  /\ round3(m.areaFill) = round3(s.areaFill)
  /\ round3(m.totalArea) = round3(s.totalArea)
  /\ m.type = s.type

\* C25: exchanging the left and the right ground values of a station
\* exchanges distL with distR and leaves bottomWidth, areaCut, areaFill, area
\* and type unchanged, for every ground profile
C25_MirrorSymmetric ==
  pc = "returned" => IsMirrorOf(result, SectionOf(Mirrored(args)), args.B)

RECURSIVE SumSegVolume(_, _)
\* the sum of segVolume over the first k rows of rs
SumSegVolume(rs, k) ==
  IF k = 0 THEN R(0) ELSE RAdd(SumSegVolume(rs, k - 1), rs[k].segVolume)

\* C26: in every result totalCut + totalFill is the sum of segVolume over all
\* rows, within the rounding of the stored values (0.001 for each row and for
\* the totals)
C26_VolumeConserved ==
  pc = "done" =>
    RLe(MathAbs(RSub(RAdd(result.summary.totalCut, result.summary.totalFill),
                     SumSegVolume(result.rows, Len(result.rows)))),
        RMul(Milli, R(Len(result.rows) + 1)))

\* stations whose ground crosses the road level near the formation
CrossingInit ==
  /\ args \in StationCallsOf({R(0), Rat(9, 2), R(10)}, StationParams)
  /\ lines = <<>>
  /\ colMap = NoColMap
  /\ rows = <<>>
  /\ i = 0
  /\ L = NaN
  /\ totalCut = R(0)
  /\ totalFill = R(0)
  /\ result = NoResult
  /\ error = ""
  /\ pc = "call"

CrossingSpec == CrossingInit /\ [][StationNext]_vars

\* <<cut, fill>> of the piece of width w on which the ground above the road
\* goes in a straight line from h1 to h2: a trapezium, or the two triangles on
\* both sides of the crossing
PieceAreas(h1, h2, w) ==
  IF RGe(h1, R(0)) /\ RGe(h2, R(0))
  THEN <<RMul(RDiv(RAdd(h1, h2), R(2)), w), R(0)>>
  ELSE IF RLe(h1, R(0)) /\ RLe(h2, R(0))
       THEN <<R(0), RMul(RDiv(RNeg(RAdd(h1, h2)), R(2)), w)>>
       ELSE LET up   == IF RGt(h1, R(0)) THEN h1 ELSE h2
                down == IF RGt(h1, R(0)) THEN RNeg(h2) ELSE RNeg(h1)
            IN  <<RMul(RMul(up, RDiv(up, RAdd(up, down))), RDiv(w, R(2))),
                  RMul(RMul(down, RDiv(down, RAdd(up, down))), RDiv(w, R(2)))>>

RECURSIVE RegionAreas(_, _, _)
\* <<the area where the ground lies above the road, the area where it lies
\* below>> over the first k offsets of xs
RegionAreas(a, xs, k) ==
  IF k <= 1 THEN <<R(0), R(0)>>
  ELSE LET rest  == RegionAreas(a, xs, k - 1)
           piece == PieceAreas(GroundAboveRoad(a, xs[k - 1]), GroundAboveRoad(a, xs[k]),
                               RSub(xs[k], xs[k - 1]))
       IN  <<RAdd(rest[1], piece[1]), RAdd(rest[2], piece[2])>>

\* the two regions between the offsets lo and hi
RegionsBetween(a, lo, hi) == RegionAreas(a, Bends(a, lo, hi), Len(Bends(a, lo, hi)))

\* the section s has, to 3 decimals, the areas reg of the two regions
HasRegionAreas(s, reg) ==
  /\ round3(s.areaCut) = round3(reg[1])
  /\ round3(s.areaFill) = round3(reg[2])
  /\ (RGt(reg[1], AreaEps) /\ RGt(reg[2], AreaEps)) => s.type = "Mixed"

\* C27: areaCut is the area between the toes where the ground lies above the
\* road and areaFill the area where it lies below, also when the two cross
\* inside a strip; a section with both regions above 0.01 is 'Mixed'
C27_AreasAreRegions ==
  pc = "returned" =>
    HasRegionAreas(result, RegionsBetween(args, result.toeL.x, result.toeR.x))

(* ------------------------------------------------------------------ *)
(* Data lines with an empty field                                       *)
(* ------------------------------------------------------------------ *)
HdrOffsets == <<"C", "h", "a", "i", "n", "a", "g", "e", ",", "F", "R", "L", ",", "L", "1", "5", ",", "M", "e", "d", "_", "L", ",", "M", "e", "d", "_", "R", ",", "R", "1", "5">>

\* data lines with one or two ground fields left empty
LineGapL15    == <<"0", "+", "1", "0", "0", ",", "5", ",", ",", "2", ",", "3", ",", "4">>
LineGapMedL   == <<"0", "+", "1", "2", "0", ",", "5", ",", "1", ",", ",", "3", ",", "4">>
LineGapMedR   == <<"0", "+", "1", "4", "0", ",", "5", ",", "1", ",", "2", ",", ",", "4">>
LineGapMedian == <<"0", "+", "1", "6", "0", ",", "5", ",", "1", ",", ",", ",", "4">>
LineNoGap     == <<"0", "+", "1", "8", "0", ",", "5", ",", "1", ",", "2", ",", "3", ",", "4">>

GapInputs ==
  {Call(HdrOffsets, d, Params(R(20), R(0), NoSpacing)) :
     d \in SeqsUpTo({LineGapL15, LineGapMedL, LineGapMedR, LineGapMedian, LineNoGap},
                    MaxGroundLines)}

GapInit ==
  /\ args \in GapInputs
  /\ lines = <<>>
  /\ colMap = NoColMap
  /\ rows = <<>>
  /\ i = 0
  /\ L = NaN
  /\ totalCut = R(0)
  /\ totalFill = R(0)
  /\ result = NoResult
  /\ error = ""
  /\ pc = "start"

GapSpec == GapInit /\ [][Next]_vars

\* the fields of a line by position: every comma ends a field, an empty one
\* included
ColumnsOf(line) ==
  LET c == PartsOf(line, ",") IN [k \in 1..Len(c) |-> trim(c[k])]

\* the ground values of a line read under the headers hdr at their own
\* positions, a missing one replaced as lines 146-150 do
GroundByPosition(hdr, line) ==
  Sanitize(<<SlotNum(hdr, ColumnsOf(line), "l15"), SlotNum(hdr, ColumnsOf(line), "med_l"),
             SlotNum(hdr, ColumnsOf(line), "med_r"), SlotNum(hdr, ColumnsOf(line), "r15")>>,
           SlotNum(hdr, ColumnsOf(line), "fgl"))

\* C28: every field is read at the position of its header: an empty field
\* between two delimiters does not shift the later fields of the line, whose
\* values stay with their own headers
C28_EmptyFieldKeepsColumns ==
  pc = "done" =>
    /\ Len(result.rows) = Len(lines) - 1
    /\ \A k \in 1..Len(result.rows) :
         \A j \in 1..4 :
           StoredGround(result.rows[k])[j]
             = round3(GroundByPosition(Headers(lines[1]), lines[k + 1])[j])

(* ------------------------------------------------------------------ *)
(* Visualizer: the selected row                                         *)
(* ------------------------------------------------------------------ *)
\* In this specification result is the data prop, i is the state
\* selectedIndex, and pc tells whether the effect of a data change is still
\* to run ("effect") or not ("idle").
MaxRows == 6

\* a result of n rows; two results of the same rows are two objects, told
\* apart by id
DataOf(n, id) == [null |-> FALSE, rows |-> [k \in 1..n |-> k], id |-> id]

\* the data prop null
NullData == [null |-> TRUE, rows |-> <<>>, id |-> 0]

DataProps == {NullData} \cup {DataOf(n, id) : n \in 0..MaxRows, id \in {0, 1}}

\* line 20: the component draws something
Displayed(data) == ~data.null /\ Len(data.rows) # 0

\* safeIndex with no look at the number of rows
safeIndexStale(selectedIndex, data) == selectedIndex

\* line 22
safeIndex(selectedIndex, data) ==
  IF selectedIndex < Len(data.rows) THEN selectedIndex ELSE 0

Max(a, b) == IF a >= b THEN a ELSE b

Min(a, b) == IF a <= b THEN a ELSE b

\* mounted with no data, the effect of the mount done
VisInit ==
  /\ args = Null
  /\ lines = <<>>
  /\ colMap = NoColMap
  /\ rows = <<>>
  /\ i = 0
  /\ L = NaN
  /\ totalCut = R(0)
  /\ totalFill = R(0)
  /\ result = NullData
  /\ error = ""
  /\ pc = "idle"

\* the parent passes another data object; the effect of lines 16-18 is due
SetData ==
  /\ \E d \in DataProps : d # result /\ result' = d
  /\ pc' = "effect"
  /\ UNCHANGED <<args, lines, colMap, rows, i, L, totalCut, totalFill, error>>

\* lines 16-18
RunEffect ==
  /\ pc = "effect"
  /\ i' = 0
  /\ pc' = "idle"
  /\ UNCHANGED <<args, lines, colMap, rows, L, totalCut, totalFill, result, error>>

\* line 292; a second click may be handled before the button is drawn
\* disabled, so the guard is only that the button exists
ClickPrevious ==
  /\ Displayed(result)
  /\ i' = Max(0, i - 1)
  /\ UNCHANGED <<args, lines, colMap, rows, L, totalCut, totalFill, result, error, pc>>

\* line 305
ClickNext ==
  /\ Displayed(result)
  /\ i' = Min(Len(result.rows) - 1, i + 1)
  /\ UNCHANGED <<args, lines, colMap, rows, L, totalCut, totalFill, result, error, pc>>

VisNext == SetData \/ RunEffect \/ ClickPrevious \/ ClickNext

\* an effect that is due runs
VisSpec == VisInit /\ [][VisNext]_vars /\ WF_vars(RunEffect)

\* the row drawn is a row of the data
C29_SafeIndexInRange ==
  Displayed(result) =>
    /\ safeIndex(i, result) >= 0
    /\ safeIndex(i, result) <= Len(result.rows) - 1

\* a click leaves the selection within 0 .. rows.length - 1 on the side it
\* moves to
C29_ClickStaysInside ==
  (result' = result /\ pc' = pc) =>
    /\ i' < i => i' >= 0
    /\ i' > i => i' <= Len(result.rows) - 1

\* a change of the data makes the reset due
C29_ChangeArmsReset == result' # result => pc' = "effect"

\* C29: after any sequence of previous and next clicks and replacements of the
\* data, safeIndex is within 0 .. rows.length - 1, previous never goes below 0,
\* next never above rows.length - 1, and a change of the data resets the
\* selection to row 0
C29_SelectionStaysValid ==
  /\ []C29_SafeIndexInRange
  /\ [](i >= 0)
  /\ [][C29_ClickStaysInside]_vars
  /\ [][C29_ChangeArmsReset]_vars
  /\ (pc = "effect") ~> (pc = "idle" /\ i = 0)

\* the data was replaced by a result of fewer rows than the selected index
C29_Witness ==
  /\ pc = "effect"
  /\ Displayed(result)
  /\ Len(result.rows) = 1
  /\ i = 2
  /\ safeIndex(i, result) = 0

(* ------------------------------------------------------------------ *)
(* App: Compute, Load Example and Reset                                 *)
(* ------------------------------------------------------------------ *)
\* In this specification args is the state params (its csvData), result and
\* error are the states of the same names (error "" for null), i is the number
\* of timer callbacks of Load Example still to run, and pc tells the last
\* button used: "fresh" (none), "used" (Compute or Load Example), "reset".
MaxTimers == 3

\* lines 107-112
ExampleCsv ==
  <<HdrTemplate,
    <<"0", "+", "0", "0", "0", ",", " ", "1", "0", "0", ".", "0", "0", "0", ",", " ", "9", "9", ".", "5", "0", "0", ",", " ", "9", "9", ".", "8", "0", "0", ",", " ", "9", "9", ".", "8", "0", "0", ",", " ", "9", "9", ".", "4", "0", "0">>,
    <<"0", "+", "0", "2", "0", ",", " ", "1", "0", "0", ".", "2", "0", "0", ",", " ", "9", "9", ".", "6", "0", "0", ",", " ", "9", "9", ".", "9", "0", "0", ",", " ", "9", "9", ".", "9", "0", "0", ",", " ", "9", "9", ".", "5", "0", "0">>,
    <<"0", "+", "0", "4", "0", ",", " ", "1", "0", "0", ".", "4", "0", "0", ",", " ", "9", "9", ".", "7", "0", "0", ",", " ", "1", "0", "0", ".", "0", "0", "0", ",", " ", "1", "0", "0", ".", "0", "0", "0", ",", " ", "9", "9", ".", "6", "0", "0">>,
    <<"0", "+", "0", "6", "0", ",", " ", "1", "0", "0", ".", "6", "0", "0", ",", " ", "1", "0", "1", ".", "5", "0", "0", ",", " ", "1", "0", "1", ".", "2", "0", "0", ",", " ", "1", "0", "1", ".", "2", "0", "0", ",", " ", "1", "0", "1", ".", "4", "0", "0">>,
    <<"0", "+", "0", "8", "0", ",", " ", "1", "0", "0", ".", "8", "0", "0", ",", " ", "1", "0", "2", ".", "0", "0", "0", ",", " ", "1", "0", "1", ".", "8", "0", "0", ",", " ", "1", "0", "1", ".", "8", "0", "0", ",", " ", "1", "0", "1", ".", "9", "0", "0">>>>

\* texts the user may have typed: nothing, a header alone, headers without
\* a chainage or a level column, and data that computes
TypedCsv ==
  {<<>>, <<HdrTemplate>>, <<HdrNoChain, LineGood>>, <<HdrNoLevel, LineGood>>,
   <<HdrGeneric, LineGood>>, ExampleCsv}

\* the message computeEarthwork throws on csvData, "" when it returns
\* (calculator.ts lines 86-106)
ThrownBy(csvData) ==
  IF Len(Lines(csvData)) < 2 THEN "Please enter data with a header row."
  ELSE IF ColMap(Headers(Lines(csvData)[1]))["ch"] = NoCol THEN "Missing 'Chainage' column."
  ELSE IF ColMap(Headers(Lines(csvData)[1]))["fgl"] = NoCol
       THEN "Missing 'Proposed_FRL' column."
       ELSE ""

\* the state result: null, or the result computed from csvData
NullResult == [null |-> TRUE, csvData |-> <<>>]

ResultOf(csvData) == [null |-> FALSE, csvData |-> csvData]

\* lines 74-85
AppInit ==
  /\ args = [csvData |-> <<>>]
  /\ lines = <<>>
  /\ colMap = NoColMap
  /\ rows = <<>>
  /\ i = 0
  /\ L = NaN
  /\ totalCut = R(0)
  /\ totalFill = R(0)
  /\ result = NullResult
  /\ error = ""
  /\ pc = "fresh"

\* InputForm onChange (line 188): the user types another text
EditCsv ==
  /\ \E c \in TypedCsv : c # args.csvData /\ args' = [csvData |-> c]
  /\ UNCHANGED <<lines, colMap, rows, i, L, totalCut, totalFill, result, error, pc>>

\* lines 87-104
handleCompute ==
  /\ IF ThrownBy(args.csvData) = ""
     THEN error' = "" /\ result' = ResultOf(args.csvData)
     ELSE error' = ThrownBy(args.csvData) /\ result' = NullResult
  /\ pc' = "used"
  /\ UNCHANGED <<args, lines, colMap, rows, i, L, totalCut, totalFill>>

\* lines 106-131, up to the setTimeout: the callback is left to run later
handleLoadExample ==
  /\ i < MaxTimers
  /\ args' = [csvData |-> ExampleCsv]
  /\ error' = ""
  /\ i' = i + 1
  /\ pc' = "used"
  /\ UNCHANGED <<lines, colMap, rows, L, totalCut, totalFill, result>>

\* lines 122-129: the timer callback, computing from the p of its click
LoadExampleTimer ==
  /\ i > 0
  /\ i' = i - 1
  /\ result' = IF ThrownBy(ExampleCsv) = "" THEN ResultOf(ExampleCsv) ELSE result
  /\ UNCHANGED <<args, lines, colMap, rows, L, totalCut, totalFill, error, pc>>

\* lines 133-145
handleReset ==
  /\ args' = [csvData |-> <<>>]
  /\ result' = NullResult
  /\ error' = ""
  /\ pc' = "reset"
  /\ UNCHANGED <<lines, colMap, rows, i, L, totalCut, totalFill>>

AppNext == EditCsv \/ handleCompute \/ handleLoadExample \/ LoadExampleTimer \/ handleReset

AppSpec == AppInit /\ [][AppNext]_vars

\* C30: in every interleaving of Compute, Load Example, its deferred callback
\* and Reset, the result stays null after Reset until Compute or Load Example
\* is used again, and no result is shown together with an error message
C30_ResetHoldsAndNoErrorWithResult ==
  /\ pc = "reset" => result = NullResult
  /\ ~(result # NullResult /\ error # "")
====
